---------------------------- MODULE Spec2Model ----------------------------
(***************************************************************************)
(* The Pandora Host and GATT gRPC services of the Floss Bluetooth stack    *)
(* (floss/pandora/server/host.py and gatt.py).                             *)
(*                                                                         *)
(* Every RPC handler runs as a task of one asyncio event loop.  The stack  *)
(* delivers its callbacks on the GLib thread to every observer that is     *)
(* registered with the client the callback belongs to.  An observer either *)
(* resolves a future of its handler (directly, or by a callback posted to  *)
(* the loop with call_soon_threadsafe) or posts a put on the handler's     *)
(* queue (run_coroutine_threadsafe).                                       *)
(*                                                                         *)
(* The stack itself is not part of the services: what it answers to a      *)
(* query (is_connected, is_bonded, ...) and which events it delivers are   *)
(* inputs, chosen freely at every step.                                    *)
(***************************************************************************)
EXTENDS Naturals, Sequences, FiniteSets, TLC

(***************************************************************************)
(* Bounds of the model.                                                    *)
(***************************************************************************)
\* callbacks the stack delivers in one run
MaxEvents == 3

(***************************************************************************)
(* Values.                                                                 *)
(***************************************************************************)
CallOrder == <<"c1", "c2">>
Calls == {CallOrder[i] : i \in 1..Len(CallOrder)}

\* request.address as it comes over gRPC (bytes) and the stack's format
WireAddrs == {"0a", "0b"}
Addrs == {"0A", "0B"}

\* What request.address reads as when the field was not set: a bytes field of
\* a protobuf message reads as its default, the empty bytes, and never as None.
Unset == ""

\* utils.address_from: bytes -> upper-case hex string of the stack
address_from(b) == CASE b = "0a" -> "0A" [] b = "0b" -> "0B" [] b = "" -> ""
                     [] OTHER -> "invalid"

\* utils.address_to: the gRPC (bytes) encoding of an address
address_to(a) == CASE a = "0A" -> "0a" [] a = "0B" -> "0b" [] OTHER -> a

BondStates == {"NOT_BONDED", "BONDING", "BONDED"}
SspVariants == {"CONSENT", "PASSKEY_CONFIRMATION"}
GattStatuses == {"SUCCESS", "ERROR"}
Handles == {"h1", "h2"}

Methods == {"Connect", "WaitConnection", "WaitDisconnection", "Advertise", "Scan",
            "Inquiry", "ExchangeMTU", "WriteAttFromHandle", "DiscoverServices",
            "DiscoverServicesSdp", "ClearCache", "FactoryReset", "Reset",
            "ConnectLE", "Disconnect", "SetConnectabilityMode"}

\* The two concurrent calls of a run are calls of the same method.
KindChoices == {k \in [Calls -> Methods] : \A c, d \in Calls : k[c] = k[d]}

VARIABLES
    kind,               \* the RPC method each call runs
    request,            \* the request each call was made with
    pc,                 \* where each handler is: idle, await_*, done
    address,            \* the handler's local `address` (or other key)
    fut,                \* the asyncio futures each handler created
    observers,          \* per client: the registered observer names
    loopq,              \* the event loop's callbacks posted from the GLib thread
    trace,              \* per call: the stack and registry calls of the handler, in order
    called,             \* per call: the stack calls its observers made on the GLib thread
    outcome,            \* how each handler ended
    response,           \* what each handler returned
    invalid_state,      \* the calls with a future on which set_result raised
                        \* InvalidStateError
    confirming,         \* set_pairing_confirmation calls whose method callback is due
    waited_connections, \* HostService.waited_connections
    raising,            \* the exception thrown into a suspended handler, if any
    queue,              \* the handler's asyncio.Queue
    delivered,          \* the stream events the handler's observer has forwarded
    yielded,            \* the responses a streaming handler has yielded
    events              \* the number of callbacks the stack has delivered

vars == <<kind, request, pc, address, fut, observers, loopq, trace, called, outcome, response,
          invalid_state, confirming, waited_connections, raising, queue, delivered,
          yielded, events>>

Clients == {"adapter_client", "gatt_client", "scanner_client", "advertising_client"}

(***************************************************************************)
(* Futures.  by: the event that resolved the future, and the key it        *)
(* carried; thread: the thread set_result was called on.                   *)
(***************************************************************************)
NewFuture(name, key) ==
    [name |-> name, key |-> key, st |-> "pending", val |-> <<>>, by |-> <<>>,
     thread |-> "-"]

Done(f, val, by, thread) ==
    [f EXCEPT !.st = "done", !.val = val, !.by = by, !.thread = thread]

Op(op, arg) == [op |-> op, arg |-> arg]

\* what a query of the stack answered, as the trace records it
Answer(b) == IF b THEN "True" ELSE "False"

\* utils.create_observer_name: unique per observer object
ObserverName(c, class, n) == <<c, class, n>>

Registered(client, c, class) ==
    \E o \in observers[client] : o[1] = c /\ o[2] = class

\* <client>.register_callback_observer(name, observer)
register_callback_observer(obs, client, name) ==
    [obs EXCEPT ![client] = @ \cup {name}]

\* <client>.unregister_callback_observer(name, observer): drops the name, if there
unregister_callback_observer(obs, client, name) ==
    [obs EXCEPT ![client] = @ \ {name}]

(***************************************************************************)
(* What one observer does with one event.                                  *)
(***************************************************************************)
NoReaction(c) ==
    [fut |-> fut[c], posts |-> <<>>, errs |-> {}, ops |-> {}, confirm |-> FALSE,
     items |-> <<>>]

\* future.set_result(val), called on the GLib thread
SetResult(c, i, val, by, ops) ==
    IF fut[c][i].st = "pending"
    THEN [fut |-> [fut[c] EXCEPT ![i] = Done(@, val, by, "GLib")],
          posts |-> <<>>, errs |-> {}, ops |-> ops, confirm |-> FALSE, items |-> <<>>]
    ELSE [fut |-> fut[c], posts |-> <<>>, errs |-> {c}, ops |-> ops,
          confirm |-> FALSE, items |-> <<>>]

\* future.get_loop().call_soon_threadsafe(future.set_result, val)
CallSoonThreadsafe(c, i, val, by) ==
    [fut |-> fut[c],
     posts |-> <<[do |-> "set_result", call |-> c, idx |-> i, val |-> val, by |-> by]>>,
     errs |-> {}, ops |-> {}, confirm |-> FALSE, items |-> <<>>]

\* asyncio.run_coroutine_threadsafe(queue.put(item), loop)
RunCoroutineThreadsafe(c, item) ==
    [fut |-> fut[c],
     posts |-> <<[do |-> "put", call |-> c, idx |-> 0, val |-> <<item>>, by |-> <<>>]>>,
     errs |-> {}, ops |-> {}, confirm |-> FALSE, items |-> <<item>>]

RECURSIVE Posts(_, _)
Posts(R, i) == IF i > Len(CallOrder) THEN <<>>
               ELSE R[CallOrder[i]].posts \o Posts(R, i + 1)

\* The client's dispatch of one event: every registered observer reacts.
Dispatch(R, confirmed) ==
    /\ events < MaxEvents
    /\ events' = events + 1
    /\ fut' = [c \in Calls |-> R[c].fut]
    /\ loopq' = loopq \o Posts(R, 1)
    /\ invalid_state' = invalid_state \cup UNION {R[c].errs : c \in Calls}
    /\ called' = [c \in Calls |-> called[c] \cup R[c].ops]
    /\ confirming' = (confirming \ confirmed) \cup {c \in Calls : R[c].confirm}
    /\ delivered' = [c \in Calls |-> delivered[c] \o R[c].items]
    /\ UNCHANGED <<kind, request, pc, address, observers, trace, outcome, response,
                   waited_connections, raising, queue, yielded>>

(***************************************************************************)
(* The ways a handler ends.                                                *)
(***************************************************************************)
\* the handler returns resp, or raises how
Ends(c, how, resp) ==
    /\ pc' = [pc EXCEPT ![c] = "done"]
    /\ outcome' = [outcome EXCEPT ![c] = how]
    /\ response' = [response EXCEPT ![c] = resp]

(***************************************************************************)
(* HostService.Connect                                                     *)
(***************************************************************************)
connect_device == 1

\* A PairingObserver that leaves a BONDED event for a connected device to
\* on_device_connected: what on_bond_state_changed would be without its else branch.
on_bond_state_changed_without_else(c, status, addr, state, is_connected, connected_all) ==
    IF ~Registered("adapter_client", c, "PairingObserver") \/ addr # address[c]
    THEN NoReaction(c)
    ELSE IF status # 0
    THEN SetResult(c, connect_device, <<FALSE, "failed to bond">>,
                   <<"on_bond_state_changed", addr>>, {})
    ELSE NoReaction(c)

on_bond_state_changed(c, status, addr, state, is_connected, connected_all) ==
    IF ~Registered("adapter_client", c, "PairingObserver") \/ addr # address[c]
    THEN NoReaction(c)
    ELSE IF status # 0
    THEN SetResult(c, connect_device, <<FALSE, "failed to bond">>,
                   <<"on_bond_state_changed", addr>>, {})
    ELSE IF state = "BONDED"
    THEN IF ~is_connected
         THEN IF ~connected_all
              THEN SetResult(c, connect_device,
                             <<FALSE, "failed on connect_all_enabled_profiles">>,
                             <<"on_bond_state_changed", addr>>,
                             {Op("connect_all_enabled_profiles", address[c])})
              ELSE [NoReaction(c) EXCEPT
                        !.ops = {Op("connect_all_enabled_profiles", address[c])}]
         ELSE SetResult(c, connect_device, <<TRUE, "None">>,
                        <<"on_bond_state_changed", addr>>, {})
    ELSE NoReaction(c)

\* A PairingObserver that accepts every pairing request of the device: what
\* on_ssp_request would be without its test of the variant.
on_ssp_request_of_any_variant(c, addr, variant) ==
    IF ~Registered("adapter_client", c, "PairingObserver") \/ addr # address[c]
    THEN NoReaction(c)
    ELSE [NoReaction(c) EXCEPT !.ops = {Op("set_pairing_confirmation", addr)},
                               !.confirm = TRUE]

on_ssp_request(c, addr, variant) ==
    IF ~Registered("adapter_client", c, "PairingObserver") \/ addr # address[c]
    THEN NoReaction(c)
    ELSE IF variant = "CONSENT"
    THEN [NoReaction(c) EXCEPT !.ops = {Op("set_pairing_confirmation", addr)},
                               !.confirm = TRUE]
    ELSE NoReaction(c)

\* the method callback of this observer's set_pairing_confirmation call
on_set_pairing_confirmation(c, err, result) ==
    IF err \/ ~result
    THEN SetResult(c, connect_device, <<FALSE, "Pairing confirmation failed">>,
                   <<"on_set_pairing_confirmation", address[c]>>, {})
    ELSE NoReaction(c)

\* A PairingObserver that takes any connection of the device for the end of the
\* pairing: what on_device_connected would be without its is_bonded test.
PairingObserver_on_device_connected_unbonded(c, addr, is_bonded) ==
    IF ~Registered("adapter_client", c, "PairingObserver") \/ addr # address[c]
    THEN NoReaction(c)
    ELSE SetResult(c, connect_device, <<TRUE, "None">>,
                   <<"on_device_connected", addr>>, {})

PairingObserver_on_device_connected(c, addr, is_bonded) ==
    IF ~Registered("adapter_client", c, "PairingObserver") \/ addr # address[c]
    THEN NoReaction(c)
    ELSE IF is_bonded
    THEN SetResult(c, connect_device, <<TRUE, "None">>,
                   <<"on_device_connected", addr>>, {})
    ELSE NoReaction(c)

\* Connect up to its await, or to its end.  The two queries of the stack are
\* recorded in the trace with the answer they got.
Connect(c) ==
    /\ pc[c] = "idle" /\ kind[c] = "Connect"
    /\ \E b \in WireAddrs, is_connected, is_bonded, created \in BOOLEAN :
        LET a == address_from(b)
            name == ObserverName(c, "PairingObserver", 0)
            reg == Op("register_callback_observer", "adapter_client")
            unreg == Op("unregister_callback_observer", "adapter_client")
        IN  /\ request' = [request EXCEPT ![c] = [address |-> b]]
            /\ address' = [address EXCEPT ![c] = a]
            /\ IF is_connected
               THEN /\ trace' = [trace EXCEPT ![c] = <<Op("is_connected", "True")>>]
                    /\ Ends(c, "response", <<"ConnectResponse", address_to(b)>>)
                    /\ UNCHANGED <<fut, observers>>
               ELSE /\ fut' = [fut EXCEPT ![c] = <<NewFuture("connect_device", a)>>]
                    /\ IF is_bonded
                       THEN /\ trace' = [trace EXCEPT ![c] =
                                            <<Op("is_connected", "False"), reg,
                                              Op("is_bonded", "True"),
                                              Op("connect_device", a)>>]
                            /\ observers' = register_callback_observer(
                                                observers, "adapter_client", name)
                            /\ pc' = [pc EXCEPT ![c] = "await_connect_device"]
                            /\ UNCHANGED <<outcome, response>>
                       ELSE IF created
                       THEN /\ trace' = [trace EXCEPT ![c] =
                                            <<Op("is_connected", "False"), reg,
                                              Op("is_bonded", "False"),
                                              Op("create_bond", a)>>]
                            /\ observers' = register_callback_observer(
                                                observers, "adapter_client", name)
                            /\ pc' = [pc EXCEPT ![c] = "await_connect_device"]
                            /\ UNCHANGED <<outcome, response>>
                       ELSE /\ trace' = [trace EXCEPT ![c] =
                                            <<Op("is_connected", "False"), reg,
                                              Op("is_bonded", "False"),
                                              Op("create_bond", a), unreg>>]
                            /\ Ends(c, "RuntimeError", <<>>)
                            /\ UNCHANGED observers
    /\ UNCHANGED <<events, kind, called, raising, queue, delivered, yielded, loopq, invalid_state, confirming, waited_connections>>

\* A Connect that returns its response whatever connect_device resolved to: what
\* Connect_resume would be without its test of `success`.
Connect_resume_unchecked(c) ==
    /\ raising[c] = "-" /\ pc[c] = "await_connect_device"
    /\ fut[c][connect_device].st = "done"
    /\ trace' = [trace EXCEPT ![c] =
                    Append(@, Op("unregister_callback_observer", "adapter_client"))]
    /\ observers' = unregister_callback_observer(
                        observers, "adapter_client", ObserverName(c, "PairingObserver", 0))
    /\ Ends(c, "response", <<"ConnectResponse", address_to(request[c].address)>>)
    /\ UNCHANGED <<events, kind, called, raising, queue, delivered, yielded, request, address, fut, loopq, invalid_state, confirming,
                   waited_connections>>

\* Connect from the result of connect_device to its end
Connect_resume(c) ==
    /\ raising[c] = "-" /\ pc[c] = "await_connect_device"
    /\ fut[c][connect_device].st = "done"
    /\ trace' = [trace EXCEPT ![c] =
                    Append(@, Op("unregister_callback_observer", "adapter_client"))]
    /\ observers' = unregister_callback_observer(
                        observers, "adapter_client", ObserverName(c, "PairingObserver", 0))
    /\ IF fut[c][connect_device].val[1]
       THEN Ends(c, "response", <<"ConnectResponse", address_to(request[c].address)>>)
       ELSE Ends(c, "RuntimeError", <<>>)
    /\ UNCHANGED <<events, kind, called, raising, queue, delivered, yielded, request, address, fut, loopq, invalid_state, confirming,
                   waited_connections>>

(***************************************************************************)
(* HostService.WaitConnection                                              *)
(***************************************************************************)
wait_connection == 1

WaitConnection_on_device_connected(c, addr) ==
    IF ~Registered("adapter_client", c, "WaitConnection.ConnectionObserver")
       \/ addr # address[c]
    THEN NoReaction(c)
    ELSE SetResult(c, wait_connection, <<addr>>,
                   <<"on_device_connected", addr>>, {})

\* The query of the stack is recorded in the trace with the answer it got.  The
\* test of request.address against None is the code's; no request reads as None.
WaitConnection(c) ==
    /\ pc[c] = "idle" /\ kind[c] = "WaitConnection"
    /\ \E b \in WireAddrs \cup {Unset}, is_connected \in BOOLEAN :
        LET a == address_from(b)
            name == ObserverName(c, "WaitConnection.ConnectionObserver", 0)
        IN  /\ request' = [request EXCEPT ![c] = [address |-> b]]
            /\ IF b = "None"
               THEN /\ Ends(c, "ValueError", <<>>)
                    /\ UNCHANGED <<address, fut, observers, trace>>
               ELSE /\ address' = [address EXCEPT ![c] = a]
                    /\ IF ~is_connected \/ a \notin waited_connections
                       THEN /\ fut' = [fut EXCEPT ![c] =
                                          <<NewFuture("wait_connection", a)>>]
                            /\ observers' = register_callback_observer(
                                                observers, "adapter_client", name)
                            /\ trace' = [trace EXCEPT ![c] =
                                   <<Op("is_connected", Answer(is_connected)),
                                     Op("register_callback_observer", "adapter_client")>>]
                            /\ pc' = [pc EXCEPT ![c] = "await_wait_connection"]
                            /\ UNCHANGED <<outcome, response>>
                       ELSE /\ trace' = [trace EXCEPT ![c] =
                                   <<Op("is_connected", Answer(is_connected))>>]
                            /\ Ends(c, "response",
                                    <<"WaitConnectionResponse", address_to(a)>>)
                            /\ UNCHANGED <<fut, observers>>
    /\ UNCHANGED <<events, kind, called, raising, queue, delivered, yielded, loopq, invalid_state, confirming, waited_connections>>

\* After the wait the handler adds to self.waited_connection, an attribute the
\* service does not have (__init__ sets waited_connections): AttributeError.
WaitConnection_resume(c) ==
    /\ raising[c] = "-" /\ pc[c] = "await_wait_connection"
    /\ fut[c][wait_connection].st = "done"
    /\ trace' = [trace EXCEPT ![c] =
                    Append(@, Op("unregister_callback_observer", "adapter_client"))]
    /\ observers' = unregister_callback_observer(observers, "adapter_client",
                        ObserverName(c, "WaitConnection.ConnectionObserver", 0))
    /\ Ends(c, "AttributeError", <<>>)
    /\ UNCHANGED <<events, kind, called, raising, queue, delivered, yielded, request, address, fut, loopq, invalid_state, confirming,
                   waited_connections>>

(***************************************************************************)
(* HostService.WaitDisconnection                                           *)
(***************************************************************************)
wait_disconnection == 1

\* A ConnectionObserver that takes the disconnection of any device for the one
\* it waits for: what on_device_disconnected would be without its address test.
on_device_disconnected_of_any_device(c, addr) ==
    IF ~Registered("adapter_client", c, "WaitDisconnection.ConnectionObserver")
    THEN NoReaction(c)
    ELSE SetResult(c, wait_disconnection, <<addr>>,
                   <<"on_device_disconnected", addr>>, {})

on_device_disconnected(c, addr) ==
    IF ~Registered("adapter_client", c, "WaitDisconnection.ConnectionObserver")
       \/ addr # address[c]
    THEN NoReaction(c)
    ELSE SetResult(c, wait_disconnection, <<addr>>,
                   <<"on_device_disconnected", addr>>, {})

\* The query of the stack is recorded in the trace with the answer it got.
WaitDisconnection(c) ==
    /\ pc[c] = "idle" /\ kind[c] = "WaitDisconnection"
    /\ \E b \in WireAddrs \cup {Unset}, is_connected \in BOOLEAN :
        LET a == address_from(b)
            name == ObserverName(c, "WaitDisconnection.ConnectionObserver", 0)
        IN  /\ request' = [request EXCEPT ![c] = [address |-> b]]
            /\ IF b = "None"
               THEN /\ Ends(c, "ValueError", <<>>)
                    /\ UNCHANGED <<address, fut, observers, trace>>
               ELSE /\ address' = [address EXCEPT ![c] = a]
                    /\ IF is_connected
                       THEN /\ fut' = [fut EXCEPT ![c] =
                                          <<NewFuture("wait_disconnection", a)>>]
                            /\ observers' = register_callback_observer(
                                                observers, "adapter_client", name)
                            /\ trace' = [trace EXCEPT ![c] =
                                   <<Op("is_connected", Answer(is_connected)),
                                     Op("register_callback_observer", "adapter_client")>>]
                            /\ pc' = [pc EXCEPT ![c] = "await_wait_disconnection"]
                            /\ UNCHANGED <<outcome, response>>
                       ELSE /\ trace' = [trace EXCEPT ![c] =
                                   <<Op("is_connected", Answer(is_connected))>>]
                            /\ Ends(c, "response", <<"Empty", "-">>)
                            /\ UNCHANGED <<fut, observers>>
    /\ UNCHANGED <<events, kind, called, raising, queue, delivered, yielded, loopq, invalid_state, confirming, waited_connections>>

WaitDisconnection_resume(c) ==
    /\ raising[c] = "-" /\ pc[c] = "await_wait_disconnection"
    /\ fut[c][wait_disconnection].st = "done"
    /\ trace' = [trace EXCEPT ![c] =
                    Append(@, Op("unregister_callback_observer", "adapter_client"))]
    /\ observers' = unregister_callback_observer(observers, "adapter_client",
                        ObserverName(c, "WaitDisconnection.ConnectionObserver", 0))
    /\ Ends(c, "response", <<"Empty", "-">>)
    /\ UNCHANGED <<events, kind, called, raising, queue, delivered, yielded, request, address, fut, loopq, invalid_state, confirming,
                   waited_connections>>

(***************************************************************************)
(* HostService.FactoryReset, HostService.Reset                             *)
(***************************************************************************)
\* A Reset that keeps a record of a device where it should have none: what Reset
\* would be if it left an address in the set.
Reset_leaving_an_address(c) ==
    /\ pc[c] = "idle" /\ kind[c] = "Reset"
    /\ waited_connections' = {"0A"}
    /\ trace' = [trace EXCEPT ![c] = <<Op("reset", "-")>>]
    /\ Ends(c, "response", <<"Empty", "-">>)
    /\ UNCHANGED <<events, kind, called, raising, queue, delivered, yielded, loopq, request,
                   address, fut, observers, invalid_state, confirming>>

FactoryReset(c) ==
    /\ pc[c] = "idle" /\ kind[c] = "FactoryReset"
    /\ waited_connections' = {}
    /\ trace' = [trace EXCEPT ![c] = <<Op("server.stop", "None")>>]
    /\ Ends(c, "response", <<"Empty", "-">>)
    /\ UNCHANGED <<events, kind, called, raising, queue, delivered, yielded, loopq, request,
                   address, fut, observers, invalid_state, confirming>>

Reset(c) ==
    /\ pc[c] = "idle" /\ kind[c] = "Reset"
    /\ waited_connections' = {}
    /\ trace' = [trace EXCEPT ![c] = <<Op("reset", "-")>>]
    /\ Ends(c, "response", <<"Empty", "-">>)
    /\ UNCHANGED <<events, kind, called, raising, queue, delivered, yielded, loopq, request,
                   address, fut, observers, invalid_state, confirming>>

(***************************************************************************)
(* HostService.ConnectLE, HostService.SetConnectabilityMode                *)
(***************************************************************************)
\* A rejection that raises without marking the context: what the two handlers
\* would be without their set_code call.
MethodNotImplemented_unmarked(c) ==
    /\ trace' = [trace EXCEPT ![c] = <<Op("set_details", "Method not implemented!")>>]
    /\ Ends(c, "NotImplementedError", <<>>)
    /\ UNCHANGED <<events, kind, called, raising, queue, delivered, yielded, loopq, request,
                   address, fut, observers, invalid_state, confirming,
                   waited_connections>>

\* context.set_code, context.set_details, raise NotImplementedError
MethodNotImplemented(c) ==
    /\ trace' = [trace EXCEPT ![c] = <<Op("set_code", "UNIMPLEMENTED"),
                                       Op("set_details", "Method not implemented!")>>]
    /\ Ends(c, "NotImplementedError", <<>>)
    /\ UNCHANGED <<events, kind, called, raising, queue, delivered, yielded, loopq, request,
                   address, fut, observers, invalid_state, confirming,
                   waited_connections>>

ConnectLE(c) ==
    /\ pc[c] = "idle" /\ kind[c] = "ConnectLE"
    /\ MethodNotImplemented(c)

SetConnectabilityMode(c) ==
    /\ pc[c] = "idle" /\ kind[c] = "SetConnectabilityMode"
    /\ MethodNotImplemented(c)

(***************************************************************************)
(* HostService.Disconnect                                                  *)
(***************************************************************************)
Disconnect(c) ==
    /\ pc[c] = "idle" /\ kind[c] = "Disconnect"
    /\ \E b \in WireAddrs, is_connected \in BOOLEAN :
        LET a == address_from(b)
        IN  /\ request' = [request EXCEPT ![c] = [connection |-> b]]
            /\ address' = [address EXCEPT ![c] = a]
            /\ trace' = [trace EXCEPT ![c] =
                   <<Op("is_connected", Answer(is_connected))>>
                   \o (IF is_connected THEN <<Op("disconnect_device", a)>> ELSE <<>>)]
    /\ Ends(c, "response", <<"Empty", "-">>)
    /\ UNCHANGED <<events, kind, called, raising, queue, delivered, yielded, loopq, fut,
                   observers, invalid_state, confirming, waited_connections>>

(***************************************************************************)
(* GATTService                                                             *)
(***************************************************************************)
\* utils.connection_from(request.connection).address
connection_from(conn) == address_from(conn)

GattRegister == Op("register_callback_observer", "gatt_client")
GattUnregister == Op("unregister_callback_observer", "gatt_client")

\* the finally clause of a GATT handler: it unregisters each observer of its list
RECURSIVE GattUnregisterAll(_)
GattUnregisterAll(n) ==
    IF n = 0 THEN <<>> ELSE <<GattUnregister>> \o GattUnregisterAll(n - 1)

WithoutCall(obs, client, c) ==
    [obs EXCEPT ![client] = {o \in @ : o[1] # c}]

\* ---- ExchangeMTU
configure_mtu == 1

on_configure_mtu(c, addr, status) ==
    IF ~Registered("gatt_client", c, "MTUChangeObserver") \/ addr # address[c]
    THEN NoReaction(c)
    ELSE CallSoonThreadsafe(c, configure_mtu, <<status>>,
                            <<"on_configure_mtu", addr>>)

ExchangeMTU(c) ==
    /\ pc[c] = "idle" /\ kind[c] = "ExchangeMTU"
    /\ \E b \in WireAddrs :
        LET a == connection_from(b)
        IN  /\ request' = [request EXCEPT ![c] = [connection |-> b]]
            /\ address' = [address EXCEPT ![c] = a]
            /\ fut' = [fut EXCEPT ![c] = <<NewFuture("configure_mtu", a)>>]
            /\ observers' = register_callback_observer(observers, "gatt_client",
                                ObserverName(c, "MTUChangeObserver", 0))
            /\ trace' = [trace EXCEPT ![c] = <<GattRegister, Op("configure_mtu", a)>>]
            /\ pc' = [pc EXCEPT ![c] = "await_configure_mtu"]
    /\ UNCHANGED <<events, kind, called, raising, queue, delivered, yielded, loopq, outcome, response, invalid_state, confirming,
                   waited_connections>>

ExchangeMTU_resume(c) ==
    /\ raising[c] = "-" /\ pc[c] = "await_configure_mtu"
    /\ fut[c][configure_mtu].st = "done"
    /\ trace' = [trace EXCEPT ![c] = Append(@, GattUnregister)]
    /\ observers' = unregister_callback_observer(observers, "gatt_client",
                        ObserverName(c, "MTUChangeObserver", 0))
    /\ IF fut[c][configure_mtu].val[1] # "SUCCESS"
       THEN Ends(c, "RuntimeError", <<>>)
       ELSE Ends(c, "response", <<"ExchangeMTUResponse", "-">>)
    /\ UNCHANGED <<events, kind, called, raising, queue, delivered, yielded, request, address, fut, loopq, invalid_state, confirming,
                   waited_connections>>

\* ---- WriteAttFromHandle
write_attribute == 1
characteristics == 2
descriptors == 3

on_characteristic_write(c, addr, status, handle) ==
    IF ~Registered("gatt_client", c, "WriteAttObserver") \/ addr # address[c]
    THEN NoReaction(c)
    ELSE CallSoonThreadsafe(c, write_attribute, <<status, handle>>,
                            <<"on_characteristic_write", addr>>)

on_descriptor_write(c, addr, status, handle) ==
    IF ~Registered("gatt_client", c, "WriteAttObserver") \/ addr # address[c]
    THEN NoReaction(c)
    ELSE CallSoonThreadsafe(c, write_attribute, <<status, handle>>,
                            <<"on_descriptor_write", addr>>)

on_characteristic_read(c, addr, status, handle) ==
    IF ~Registered("gatt_client", c, "ReadCharacteristicFromHandleObserver")
       \/ addr # address[c]
    THEN NoReaction(c)
    ELSE CallSoonThreadsafe(c, characteristics, <<status>>,
                            <<"on_characteristic_read", addr>>)

on_descriptor_read(c, addr, status, handle) ==
    IF ~Registered("gatt_client", c, "ReadCharacteristicDescriptorFromHandleObserver")
       \/ addr # address[c]
    THEN NoReaction(c)
    ELSE CallSoonThreadsafe(c, descriptors, <<status>>,
                            <<"on_descriptor_read", addr>>)

WriteAttFromHandle(c) ==
    /\ pc[c] = "idle" /\ kind[c] = "WriteAttFromHandle"
    /\ \E b \in WireAddrs, h \in Handles :
        LET a == connection_from(b)
        IN  /\ request' = [request EXCEPT ![c] = [connection |-> b, handle |-> h]]
            /\ address' = [address EXCEPT ![c] = a]
            /\ fut' = [fut EXCEPT ![c] = <<NewFuture("write_attribute", a),
                                           NewFuture("characteristics", a)>>]
            /\ observers' = register_callback_observer(
                                register_callback_observer(observers, "gatt_client",
                                    ObserverName(c, "WriteAttObserver", 0)),
                                "gatt_client",
                                ObserverName(c, "ReadCharacteristicFromHandleObserver", 0))
            /\ trace' = [trace EXCEPT ![c] =
                            <<GattRegister, GattRegister, Op("read_characteristic", h)>>]
            /\ pc' = [pc EXCEPT ![c] = "await_characteristics"]
    /\ UNCHANGED <<events, kind, called, raising, queue, delivered, yielded, loopq, outcome, response, invalid_state, confirming,
                   waited_connections>>

\* from the characteristic read's status to the next await
WriteAttFromHandle_char_status(c) ==
    /\ raising[c] = "-" /\ pc[c] = "await_characteristics"
    /\ fut[c][characteristics].st = "done"
    /\ IF fut[c][characteristics].val[1] # "SUCCESS"
       THEN /\ fut' = [fut EXCEPT ![c] = Append(@, NewFuture("descriptors", address[c]))]
            /\ observers' = register_callback_observer(observers, "gatt_client",
                   ObserverName(c, "ReadCharacteristicDescriptorFromHandleObserver", 0))
            /\ trace' = [trace EXCEPT ![c] =
                   @ \o <<GattRegister, Op("read_descriptor", request[c].handle)>>]
            /\ pc' = [pc EXCEPT ![c] = "await_descriptors"]
       ELSE /\ trace' = [trace EXCEPT ![c] =
                   Append(@, Op("write_characteristic", request[c].handle))]
            /\ pc' = [pc EXCEPT ![c] = "await_write_attribute"]
            /\ UNCHANGED <<fut, observers>>
    /\ UNCHANGED <<events, kind, called, raising, queue, delivered, yielded, request, address, loopq, outcome, response, invalid_state,
                   confirming, waited_connections>>

\* A handler that goes on to the write whatever the descriptor read reported: what
\* WriteAttFromHandle would be without valid_handle.
WriteAttFromHandle_desc_status_ignored(c) ==
    /\ raising[c] = "-" /\ pc[c] = "await_descriptors"
    /\ fut[c][descriptors].st = "done"
    /\ trace' = [trace EXCEPT ![c] =
           Append(@, Op("write_descriptor", request[c].handle))]
    /\ pc' = [pc EXCEPT ![c] = "await_write_attribute"]
    /\ UNCHANGED <<events, kind, called, raising, queue, delivered, yielded, request, address, fut, loopq, invalid_state, confirming,
                   waited_connections, observers, outcome, response>>

\* from the descriptor read's status to the next await, or to the end
WriteAttFromHandle_desc_status(c) ==
    /\ raising[c] = "-" /\ pc[c] = "await_descriptors"
    /\ fut[c][descriptors].st = "done"
    /\ IF fut[c][descriptors].val[1] # "SUCCESS"
       THEN /\ trace' = [trace EXCEPT ![c] = @ \o GattUnregisterAll(Len(fut[c]))]
            /\ observers' = WithoutCall(observers, "gatt_client", c)
            /\ Ends(c, "response",
                    <<"WriteResponse", request[c].handle, "INVALID_HANDLE">>)
       ELSE /\ trace' = [trace EXCEPT ![c] =
                   Append(@, Op("write_descriptor", request[c].handle))]
            /\ pc' = [pc EXCEPT ![c] = "await_write_attribute"]
            /\ UNCHANGED <<observers, outcome, response>>
    /\ UNCHANGED <<events, kind, called, raising, queue, delivered, yielded, request, address, fut, loopq, invalid_state, confirming,
                   waited_connections>>

\* A handler that fails the RPC on a write the device refused: what
\* WriteAttFromHandle would be if it tested the status as the simple operations do.
WriteAttFromHandle_resume_checked(c) ==
    /\ raising[c] = "-" /\ pc[c] = "await_write_attribute"
    /\ fut[c][write_attribute].st = "done"
    /\ trace' = [trace EXCEPT ![c] = @ \o GattUnregisterAll(Len(fut[c]))]
    /\ observers' = WithoutCall(observers, "gatt_client", c)
    /\ IF fut[c][write_attribute].val[1] # "SUCCESS"
       THEN Ends(c, "RuntimeError", <<>>)
       ELSE Ends(c, "response", <<"WriteResponse", fut[c][write_attribute].val[2],
                                  fut[c][write_attribute].val[1]>>)
    /\ UNCHANGED <<events, kind, called, raising, queue, delivered, yielded, request, address, fut, loopq, invalid_state, confirming,
                   waited_connections>>

WriteAttFromHandle_resume(c) ==
    /\ raising[c] = "-" /\ pc[c] = "await_write_attribute"
    /\ fut[c][write_attribute].st = "done"
    /\ trace' = [trace EXCEPT ![c] = @ \o GattUnregisterAll(Len(fut[c]))]
    /\ observers' = WithoutCall(observers, "gatt_client", c)
    /\ Ends(c, "response", <<"WriteResponse", fut[c][write_attribute].val[2],
                             fut[c][write_attribute].val[1]>>)
    /\ UNCHANGED <<events, kind, called, raising, queue, delivered, yielded, request, address, fut, loopq, invalid_state, confirming,
                   waited_connections>>

\* ---- DiscoverServices
search_services == 1

\* A DiscoveryObserver that takes the event of any device: what
\* on_search_complete would be without its comparison of addresses.
on_search_complete_of_any_device(c, addr, services, status) ==
    IF ~Registered("gatt_client", c, "DiscoveryObserver")
    THEN NoReaction(c)
    ELSE CallSoonThreadsafe(c, search_services, <<services, status>>,
                            <<"on_search_complete", addr>>)

on_search_complete(c, addr, services, status) ==
    IF ~Registered("gatt_client", c, "DiscoveryObserver") \/ addr # address[c]
    THEN NoReaction(c)
    ELSE CallSoonThreadsafe(c, search_services, <<services, status>>,
                            <<"on_search_complete", addr>>)

DiscoverServices(c) ==
    /\ pc[c] = "idle" /\ kind[c] = "DiscoverServices"
    /\ \E b \in WireAddrs :
        LET a == connection_from(b)
        IN  /\ request' = [request EXCEPT ![c] = [connection |-> b]]
            /\ address' = [address EXCEPT ![c] = a]
            /\ fut' = [fut EXCEPT ![c] = <<NewFuture("search_services", a)>>]
            /\ observers' = register_callback_observer(observers, "gatt_client",
                                ObserverName(c, "DiscoveryObserver", 0))
            /\ trace' = [trace EXCEPT ![c] = <<GattRegister, Op("discover_services", a)>>]
            /\ pc' = [pc EXCEPT ![c] = "await_search_services"]
    /\ UNCHANGED <<events, kind, called, raising, queue, delivered, yielded, loopq, outcome, response, invalid_state, confirming,
                   waited_connections>>

DiscoverServices_resume(c) ==
    /\ raising[c] = "-" /\ pc[c] = "await_search_services"
    /\ fut[c][search_services].st = "done"
    /\ trace' = [trace EXCEPT ![c] = Append(@, GattUnregister)]
    /\ observers' = unregister_callback_observer(observers, "gatt_client",
                        ObserverName(c, "DiscoveryObserver", 0))
    /\ IF fut[c][search_services].val[2] # "SUCCESS"
       THEN Ends(c, "RuntimeError", <<>>)
       ELSE Ends(c, "response",
                 <<"DiscoverServicesResponse", fut[c][search_services].val[1]>>)
    /\ UNCHANGED <<events, kind, called, raising, queue, delivered, yielded, request, address, fut, loopq, invalid_state, confirming,
                   waited_connections>>

\* ---- DiscoverServicesSdp
device_uuids_changed == 1

RemoteUuids == {"None", "empty", "uuids"}

on_device_properties_changed(c, addr, has_uuids) ==
    IF ~Registered("adapter_client", c, "DiscoverySDPObserver") \/ addr # address[c]
    THEN NoReaction(c)
    ELSE IF has_uuids
    THEN CallSoonThreadsafe(c, device_uuids_changed, <<>>,
                            <<"on_device_properties_changed", addr>>)
    ELSE NoReaction(c)

\* bond1, bond2: the two answers of get_bond_state.  The first test reads
\* (uuids is None or len(uuids)) == 0, which is len(uuids) == 0 for a list and
\* True == 0 for None.  On the paths that register no observer the finally clause
\* reads the unbound locals `name` and `observer`.
DiscoverServicesSdp(c) ==
    /\ pc[c] = "idle" /\ kind[c] = "DiscoverServicesSdp"
    /\ \E b \in WireAddrs, uuids \in RemoteUuids, bond1, bond2 \in BondStates,
          fetched \in BOOLEAN :
        LET a == address_from(b)
            reg == Op("register_callback_observer", "adapter_client")
            unreg == Op("unregister_callback_observer", "adapter_client")
        IN  /\ request' = [request EXCEPT ![c] = [address |-> b]]
            /\ address' = [address EXCEPT ![c] = a]
            /\ IF bond1 = "BONDING" /\ uuids = "empty"
               THEN /\ Ends(c, "UnboundLocalError", <<>>)
                    /\ UNCHANGED <<fut, observers, trace>>
               ELSE IF bond2 # "BONDING"
               THEN /\ fut' = [fut EXCEPT ![c] = <<NewFuture("device_uuids_changed", a)>>]
                    /\ IF fetched
                       THEN /\ observers' = register_callback_observer(
                                   observers, "adapter_client",
                                   ObserverName(c, "DiscoverySDPObserver", 0))
                            /\ trace' = [trace EXCEPT ![c] = <<reg, Op("fetch_remote", a)>>]
                            /\ pc' = [pc EXCEPT ![c] = "await_device_uuids_changed"]
                            /\ UNCHANGED <<outcome, response>>
                       ELSE /\ trace' = [trace EXCEPT ![c] =
                                            <<reg, Op("fetch_remote", a), unreg>>]
                            /\ Ends(c, "RuntimeError", <<>>)
                            /\ UNCHANGED observers
               ELSE /\ Ends(c, "UnboundLocalError", <<>>)
                    /\ UNCHANGED <<fut, observers, trace>>
    /\ UNCHANGED <<events, kind, called, raising, queue, delivered, yielded, loopq, invalid_state, confirming, waited_connections>>

DiscoverServicesSdp_resume(c) ==
    /\ raising[c] = "-" /\ pc[c] = "await_device_uuids_changed"
    /\ fut[c][device_uuids_changed].st = "done"
    /\ \E uuids \in RemoteUuids :
        Ends(c, "response", <<"DiscoverServicesSdpResponse",
                              IF uuids = "uuids" THEN "uuids" ELSE "empty">>)
    /\ trace' = [trace EXCEPT ![c] =
                    Append(@, Op("unregister_callback_observer", "adapter_client"))]
    /\ observers' = unregister_callback_observer(observers, "adapter_client",
                        ObserverName(c, "DiscoverySDPObserver", 0))
    /\ UNCHANGED <<events, kind, called, raising, queue, delivered, yielded, request, address, fut, loopq, invalid_state, confirming,
                   waited_connections>>

\* ---- ClearCache
refresh == 1

on_connection_updated(c, addr, status) ==
    IF ~Registered("gatt_client", c, "ClearCacheObserver") \/ addr # address[c]
    THEN NoReaction(c)
    ELSE CallSoonThreadsafe(c, refresh, <<status>>,
                            <<"on_connection_updated", addr>>)

ClearCache(c) ==
    /\ pc[c] = "idle" /\ kind[c] = "ClearCache"
    /\ \E b \in WireAddrs :
        LET a == connection_from(b)
        IN  /\ request' = [request EXCEPT ![c] = [connection |-> b]]
            /\ address' = [address EXCEPT ![c] = a]
            /\ fut' = [fut EXCEPT ![c] = <<NewFuture("refresh", a)>>]
            /\ observers' = register_callback_observer(observers, "gatt_client",
                                ObserverName(c, "ClearCacheObserver", 0))
            /\ trace' = [trace EXCEPT ![c] = <<GattRegister, Op("refresh_device", a)>>]
            /\ pc' = [pc EXCEPT ![c] = "await_refresh"]
    /\ UNCHANGED <<events, kind, called, raising, queue, delivered, yielded, loopq, outcome, response, invalid_state, confirming,
                   waited_connections>>

\* A handler that returns its response whatever the status: what
\* ClearCache_resume would be without its test of the status.
ClearCache_resume_unchecked(c) ==
    /\ raising[c] = "-" /\ pc[c] = "await_refresh"
    /\ fut[c][refresh].st = "done"
    /\ trace' = [trace EXCEPT ![c] = Append(@, GattUnregister)]
    /\ observers' = unregister_callback_observer(observers, "gatt_client",
                        ObserverName(c, "ClearCacheObserver", 0))
    /\ Ends(c, "response", <<"ClearCacheResponse", "-">>)
    /\ UNCHANGED <<events, kind, called, raising, queue, delivered, yielded, request, address, fut, loopq, invalid_state, confirming,
                   waited_connections>>

ClearCache_resume(c) ==
    /\ raising[c] = "-" /\ pc[c] = "await_refresh"
    /\ fut[c][refresh].st = "done"
    /\ trace' = [trace EXCEPT ![c] = Append(@, GattUnregister)]
    /\ observers' = unregister_callback_observer(observers, "gatt_client",
                        ObserverName(c, "ClearCacheObserver", 0))
    /\ IF fut[c][refresh].val[1] # "SUCCESS"
       THEN Ends(c, "RuntimeError", <<>>)
       ELSE Ends(c, "response", <<"ClearCacheResponse", "-">>)
    /\ UNCHANGED <<events, kind, called, raising, queue, delivered, yielded, request, address, fut, loopq, invalid_state, confirming,
                   waited_connections>>

(***************************************************************************)
(* HostService.Scan                                                        *)
(***************************************************************************)
register_scanner == 1

\* the uuid register_scanner returns, and the bytes the callback carries
Uuids == {"u1", "u2"}
UuidBytes == {"b1", "b2"}
ScannerIds == {"s1", "s2"}

\* uuid_module.UUID(bytes=bytes(uuid))
UUID(bytes) == CASE bytes = "b1" -> "u1" [] bytes = "b2" -> "u2" [] OTHER -> "invalid"

\* a scan result; `scanner` is the scanner whose scan produced it, which the
\* callback's argument does not carry
ScanResults == {[address |-> a, scanner |-> sid] : a \in Addrs, sid \in ScannerIds}

on_scanner_registered(c, uuid, scanner_id, status) ==
    IF ~Registered("scanner_client", c, "ScanObserver")
       \/ UUID(uuid) # fut[c][register_scanner].key
    THEN NoReaction(c)
    ELSE SetResult(c, register_scanner,
                   <<IF status # "SUCCESS" THEN "None" ELSE scanner_id>>,
                   <<"on_scanner_registered", UUID(uuid), scanner_id>>, {})

on_scan_result(c, scan_result) ==
    IF ~Registered("scanner_client", c, "ScanObserver")
    THEN NoReaction(c)
    ELSE RunCoroutineThreadsafe(c, scan_result)

\* register_scanner returns a uuid no other scanner has
Scan(c) ==
    /\ pc[c] = "idle" /\ kind[c] = "Scan"
    /\ \E u \in Uuids :
        /\ \A d \in Calls \ {c} :
            IF Len(fut[d]) = 0 THEN TRUE ELSE fut[d][register_scanner].key # u
        /\ fut' = [fut EXCEPT ![c] = <<NewFuture("register_scanner", u)>>]
    /\ observers' = register_callback_observer(observers, "scanner_client",
                        ObserverName(c, "ScanObserver", 0))
    /\ trace' = [trace EXCEPT ![c] =
                    <<Op("register_scanner", "-"),
                      Op("register_callback_observer", "scanner_client")>>]
    /\ pc' = [pc EXCEPT ![c] = "await_register_scanner"]
    /\ UNCHANGED <<events, kind, called, raising, queue, delivered, yielded, loopq, request, address,
                   outcome, response, invalid_state, confirming, waited_connections>>

\* from the scanner id to the first read of the queue
Scan_start_scan(c) ==
    /\ raising[c] = "-" /\ pc[c] = "await_register_scanner"
    /\ fut[c][register_scanner].st = "done"
    /\ trace' = [trace EXCEPT ![c] =
                    Append(@, Op("start_scan", fut[c][register_scanner].val[1]))]
    /\ pc' = [pc EXCEPT ![c] = "await_scan_results"]
    /\ UNCHANGED <<events, kind, called, raising, queue, delivered, yielded, loopq, request, address,
                   fut, observers, outcome, response, invalid_state, confirming,
                   waited_connections>>

\* bytes.fromhex(scan_result['address'].replace(':', ''))
bytes_fromhex(a) == CASE a = "0A" -> "0a" [] a = "0B" -> "0b" [] OTHER -> "ValueError"

\* the response built from a scan result
ScanningResponse(scan_result) ==
    [public |-> bytes_fromhex(scan_result.address), scanner |-> scan_result.scanner]

\* scan_results.get() and the yield of its response
Scan_yield(c) ==
    /\ raising[c] = "-" /\ pc[c] = "await_scan_results"
    /\ queue[c] # <<>>
    /\ yielded' = [yielded EXCEPT ![c] = Append(@, ScanningResponse(Head(queue[c])))]
    /\ queue' = [queue EXCEPT ![c] = Tail(@)]
    /\ UNCHANGED <<events, kind, called, raising, delivered, loopq, request, address, pc, trace,
                   fut, observers, outcome, response, invalid_state, confirming,
                   waited_connections>>

\* the local scanner_id, assigned when the wait for the registration returns
scanner_id(c) ==
    IF pc[c] = "await_scan_results" THEN fut[c][register_scanner].val[1] ELSE "None"

\* A finally clause that unregisters the observer only with the scanner it
\* stops: what Scan_finally would be with the unregister call under the test of
\* scanner_id.
Scan_finally_of_started_scan(c) ==
    IF scanner_id(c) # "None"
    THEN <<Op("stop_scan", scanner_id(c)),
           Op("unregister_callback_observer", "scanner_client")>>
    ELSE <<>>

Scan_finally(c) ==
    (IF scanner_id(c) # "None" THEN <<Op("stop_scan", scanner_id(c))>> ELSE <<>>)
    \o <<Op("unregister_callback_observer", "scanner_client")>>

(***************************************************************************)
(* HostService.Inquiry                                                     *)
(***************************************************************************)
start_inquiry == 1

\* A DiscoveryObserver that takes any change of the discovery for its start:
\* what on_discovering_changed would be without its test of the value.
on_discovering_changed_to_any(c, discovering) ==
    IF ~Registered("adapter_client", c, "DiscoveryObserver")
    THEN NoReaction(c)
    ELSE SetResult(c, start_inquiry, <<discovering>>,
                   <<"on_discovering_changed", discovering>>, {})

on_discovering_changed(c, discovering) ==
    IF ~Registered("adapter_client", c, "DiscoveryObserver")
       \/ discovering # fut[c][start_inquiry].key
    THEN NoReaction(c)
    ELSE SetResult(c, start_inquiry, <<discovering>>,
                   <<"on_discovering_changed", discovering>>, {})

on_device_found(c, addr) ==
    IF ~Registered("adapter_client", c, "InquiryResultObserver")
    THEN NoReaction(c)
    ELSE RunCoroutineThreadsafe(c, addr)

Inquiry(c) ==
    /\ pc[c] = "idle" /\ kind[c] = "Inquiry"
    /\ \E is_discovering \in BOOLEAN :
        IF ~is_discovering
        THEN /\ fut' = [fut EXCEPT ![c] = <<NewFuture("start_inquiry", "True")>>]
             /\ observers' = register_callback_observer(observers, "adapter_client",
                                 ObserverName(c, "DiscoveryObserver", 0))
             /\ trace' = [trace EXCEPT ![c] =
                             <<Op("is_discovering", Answer(is_discovering)),
                               Op("register_callback_observer", "adapter_client"),
                               Op("start_discovery", "-")>>]
             /\ pc' = [pc EXCEPT ![c] = "await_start_inquiry"]
        ELSE /\ observers' = register_callback_observer(observers, "adapter_client",
                                 ObserverName(c, "InquiryResultObserver", 0))
             /\ trace' = [trace EXCEPT ![c] =
                             <<Op("is_discovering", Answer(is_discovering)),
                               Op("register_callback_observer", "adapter_client")>>]
             /\ pc' = [pc EXCEPT ![c] = "await_inquiry_results"]
             /\ UNCHANGED fut
    /\ UNCHANGED <<events, kind, called, raising, queue, delivered, yielded, loopq, request, address,
                   outcome, response, invalid_state, confirming, waited_connections>>

Inquiry_started(c) ==
    /\ raising[c] = "-" /\ pc[c] = "await_start_inquiry"
    /\ fut[c][start_inquiry].st = "done"
    /\ observers' = register_callback_observer(observers, "adapter_client",
                        ObserverName(c, "InquiryResultObserver", 0))
    /\ trace' = [trace EXCEPT ![c] =
                    Append(@, Op("register_callback_observer", "adapter_client"))]
    /\ pc' = [pc EXCEPT ![c] = "await_inquiry_results"]
    /\ UNCHANGED <<events, kind, called, raising, queue, delivered, yielded, loopq, request, address,
                   fut, outcome, response, invalid_state, confirming,
                   waited_connections>>

\* A consumer that reads the newest result first: what Inquiry_yield would be with
\* a LIFO queue.
Inquiry_yield_newest(c) ==
    /\ raising[c] = "-" /\ pc[c] = "await_inquiry_results"
    /\ queue[c] # <<>>
    /\ yielded' = [yielded EXCEPT ![c] = Append(@, address_to(queue[c][Len(queue[c])]))]
    /\ queue' = [queue EXCEPT ![c] = SubSeq(@, 1, Len(@) - 1)]
    /\ UNCHANGED <<events, kind, called, raising, delivered, loopq, request, address, pc, trace,
                   fut, observers, outcome, response, invalid_state, confirming,
                   waited_connections>>

Inquiry_yield(c) ==
    /\ raising[c] = "-" /\ pc[c] = "await_inquiry_results"
    /\ queue[c] # <<>>
    /\ yielded' = [yielded EXCEPT ![c] = Append(@, address_to(Head(queue[c])))]
    /\ queue' = [queue EXCEPT ![c] = Tail(@)]
    /\ UNCHANGED <<events, kind, called, raising, delivered, loopq, request, address, pc, trace,
                   fut, observers, outcome, response, invalid_state, confirming,
                   waited_connections>>

RECURSIVE Repeat(_, _)
Repeat(ops, n) == IF n = 0 THEN <<>> ELSE ops \o Repeat(ops, n - 1)

NamesOf(c) == {o \in UNION {observers[cl] : cl \in Clients} : o[1] = c}

Inquiry_finally(c) ==
    <<Op("stop_discovery", "-")>>
    \o Repeat(<<Op("unregister_callback_observer", "adapter_client")>>,
              Cardinality(NamesOf(c)))

(***************************************************************************)
(* HostService.Advertise                                                   *)
(***************************************************************************)
RegIds == {"r1", "r2"}
AdvertiserIds == {"a1", "a2"}

\* Every AdvertisingObserver the call has registered sees the event; the i-th
\* has the i-th start_advertising future and its reg_id.
RECURSIVE AdvertisingObservers(_, _, _, _, _)
AdvertisingObservers(c, i, reg_id, advertiser_id, status) ==
    IF i > Len(fut[c])
    THEN [fut |-> fut[c], errs |-> {}]
    ELSE LET rest == AdvertisingObservers(c, i + 1, reg_id, advertiser_id, status)
             result == <<IF status = "None" \/ status # "SUCCESS"
                         THEN "None" ELSE advertiser_id>>
         IN  IF reg_id # fut[c][i].key
             THEN rest
             ELSE IF fut[c][i].st = "pending"
             THEN [rest EXCEPT !.fut[i] =
                       Done(@, result, <<"on_advertising_set_started", reg_id>>, "GLib")]
             ELSE [rest EXCEPT !.errs = @ \cup {c}]

on_advertising_set_started(c, reg_id, advertiser_id, status) ==
    IF ~Registered("advertising_client", c, "AdvertisingObserver")
    THEN NoReaction(c)
    ELSE LET r == AdvertisingObservers(c, 1, reg_id, advertiser_id, status)
         IN  [NoReaction(c) EXCEPT !.fut = r.fut, !.errs = r.errs]

Advertise_on_device_connected(c, addr) ==
    IF ~Registered("adapter_client", c, "Advertise.ConnectionObserver")
    THEN NoReaction(c)
    ELSE RunCoroutineThreadsafe(c, addr)

\* Advertise up to the head of its loop
Advertise(c) ==
    /\ pc[c] = "idle" /\ kind[c] = "Advertise"
    /\ \E connectable \in BOOLEAN :
        /\ request' = [request EXCEPT ![c] = [connectable |-> connectable]]
        /\ IF connectable
           THEN /\ observers' = register_callback_observer(observers, "adapter_client",
                                    ObserverName(c, "Advertise.ConnectionObserver", 0))
                /\ trace' = [trace EXCEPT ![c] =
                                <<Op("register_callback_observer", "adapter_client")>>]
           ELSE UNCHANGED <<observers, trace>>
    /\ pc' = [pc EXCEPT ![c] = "while_true"]
    /\ UNCHANGED <<events, kind, called, raising, queue, delivered, yielded, loopq, address, fut,
                   outcome, response, invalid_state, confirming, waited_connections>>

\* the body of the loop up to its next await; it is entered at the start and
\* after each sleep.  start_advertising_set returns a reg_id no other set has.
Advertise_loop(c) ==
    /\ raising[c] = "-" /\ pc[c] \in {"while_true", "sleep"}
    /\ \E active_advs \in BOOLEAN, reg_id \in RegIds :
        IF ~active_advs
        THEN /\ \A d \in Calls : \A i \in 1..Len(fut[d]) : fut[d][i].key # reg_id
             /\ fut' = [fut EXCEPT ![c] = Append(@, NewFuture("start_advertising", reg_id))]
             /\ observers' = register_callback_observer(observers, "advertising_client",
                                 ObserverName(c, "AdvertisingObserver", Len(fut[c]) + 1))
             /\ trace' = [trace EXCEPT ![c] =
                             @ \o <<Op("start_advertising_set", reg_id),
                                    Op("register_callback_observer", "advertising_client")>>]
             /\ pc' = [pc EXCEPT ![c] = "await_start_advertising"]
        ELSE /\ pc' = [pc EXCEPT ![c] =
                          IF request[c].connectable THEN "await_connections" ELSE "sleep"]
             /\ UNCHANGED <<fut, observers, trace>>
    /\ UNCHANGED <<events, kind, called, raising, queue, delivered, yielded, loopq, request, address,
                   outcome, response, invalid_state, confirming, waited_connections>>

\* started_ids.append(advertiser_id), and on to the next await
Advertise_started(c) ==
    /\ raising[c] = "-" /\ pc[c] = "await_start_advertising"
    /\ fut[c][Len(fut[c])].st = "done"
    /\ pc' = [pc EXCEPT ![c] =
                 IF request[c].connectable THEN "await_connections" ELSE "sleep"]
    /\ UNCHANGED <<events, kind, called, raising, queue, delivered, yielded, loopq, request, address,
                   fut, observers, trace, outcome, response, invalid_state, confirming,
                   waited_connections>>

\* connections.get(), the yield of its response, and on to the sleep
Advertise_yield(c) ==
    /\ raising[c] = "-" /\ pc[c] = "await_connections"
    /\ queue[c] # <<>>
    /\ yielded' = [yielded EXCEPT ![c] = Append(@, address_to(Head(queue[c])))]
    /\ queue' = [queue EXCEPT ![c] = Tail(@)]
    /\ pc' = [pc EXCEPT ![c] = "sleep"]
    /\ UNCHANGED <<events, kind, called, raising, delivered, loopq, request, address, trace,
                   fut, observers, outcome, response, invalid_state, confirming,
                   waited_connections>>

\* the local started_ids: the results of the waits that have returned
started_ids(c) ==
    LET n == IF pc[c] = "await_start_advertising" THEN Len(fut[c]) - 1 ELSE Len(fut[c])
    IN  [i \in 1..n |-> fut[c][i].val[1]]

RECURSIVE StopAll(_, _)
StopAll(ids, i) ==
    IF i > Len(ids) THEN <<>>
    ELSE <<Op("stop_advertising_set", ids[i])>> \o StopAll(ids, i + 1)

\* each observer of the list is unregistered from both clients
Advertise_finally(c) ==
    Repeat(<<Op("unregister_callback_observer", "adapter_client"),
             Op("unregister_callback_observer", "advertising_client")>>,
           Cardinality(NamesOf(c)))
    \o StopAll(started_ids(c), 1)

(***************************************************************************)
(* The callbacks of the stack, each delivered to every registered observer *)
(* that implements it.  A client with no such observer drops the event.    *)
(***************************************************************************)
Observing(client, classes) ==
    \E o \in observers[client] : o[2] \in classes

on_device_connected(c, addr, is_bonded) ==
    IF Registered("adapter_client", c, "PairingObserver")
    THEN PairingObserver_on_device_connected(c, addr, is_bonded)
    ELSE IF Registered("adapter_client", c, "WaitConnection.ConnectionObserver")
    THEN WaitConnection_on_device_connected(c, addr)
    ELSE Advertise_on_device_connected(c, addr)

Deliver_on_bond_state_changed ==
    /\ Observing("adapter_client", {"PairingObserver"})
    /\ \E status \in {0, 1}, addr \in Addrs, state \in BondStates :
        \E is_connected \in IF status = 0 /\ state = "BONDED" THEN BOOLEAN ELSE {FALSE} :
        \E connected_all \in IF status = 0 /\ state = "BONDED" /\ ~is_connected
                              THEN BOOLEAN ELSE {FALSE} :
           Dispatch([c \in Calls |-> on_bond_state_changed(
                        c, status, addr, state, is_connected, connected_all)], {})

Deliver_on_ssp_request ==
    /\ Observing("adapter_client", {"PairingObserver"})
    /\ \E addr \in Addrs, variant \in SspVariants :
           Dispatch([c \in Calls |-> on_ssp_request(c, addr, variant)], {})

Deliver_on_set_pairing_confirmation ==
    \E d \in confirming, err, result \in BOOLEAN :
        Dispatch([c \in Calls |-> IF c = d
                                  THEN on_set_pairing_confirmation(c, err, result)
                                  ELSE NoReaction(c)], {d})

Deliver_on_device_connected ==
    /\ Observing("adapter_client",
                 {"PairingObserver",
                  "WaitConnection.ConnectionObserver",
                  "Advertise.ConnectionObserver"})
    /\ \E addr \in Addrs, is_bonded \in BOOLEAN :
           Dispatch([c \in Calls |-> on_device_connected(c, addr, is_bonded)], {})

Deliver_on_device_disconnected ==
    /\ Observing("adapter_client", {"WaitDisconnection.ConnectionObserver"})
    /\ \E addr \in Addrs :
           Dispatch([c \in Calls |-> on_device_disconnected(c, addr)], {})

Deliver_on_device_found ==
    /\ Observing("adapter_client", {"InquiryResultObserver"})
    /\ \E addr \in Addrs :
           Dispatch([c \in Calls |-> on_device_found(c, addr)], {})

Deliver_on_discovering_changed ==
    /\ Observing("adapter_client", {"DiscoveryObserver"})
    /\ \E discovering \in {"True", "False"} :
           Dispatch([c \in Calls |-> on_discovering_changed(c, discovering)], {})

Deliver_on_device_properties_changed ==
    /\ Observing("adapter_client", {"DiscoverySDPObserver"})
    /\ \E addr \in Addrs, has_uuids \in BOOLEAN :
           Dispatch([c \in Calls |-> on_device_properties_changed(c, addr, has_uuids)], {})

Deliver_on_configure_mtu ==
    /\ Observing("gatt_client", {"MTUChangeObserver"})
    /\ \E addr \in Addrs, status \in GattStatuses :
           Dispatch([c \in Calls |-> on_configure_mtu(c, addr, status)], {})

Deliver_on_characteristic_write ==
    /\ Observing("gatt_client", {"WriteAttObserver"})
    /\ \E addr \in Addrs, status \in GattStatuses, handle \in Handles :
           Dispatch([c \in Calls |-> on_characteristic_write(c, addr, status, handle)], {})

Deliver_on_descriptor_write ==
    /\ Observing("gatt_client", {"WriteAttObserver"})
    /\ \E addr \in Addrs, status \in GattStatuses, handle \in Handles :
           Dispatch([c \in Calls |-> on_descriptor_write(c, addr, status, handle)], {})

Deliver_on_characteristic_read ==
    /\ Observing("gatt_client", {"ReadCharacteristicFromHandleObserver"})
    /\ \E addr \in Addrs, status \in GattStatuses, handle \in Handles :
           Dispatch([c \in Calls |-> on_characteristic_read(c, addr, status, handle)], {})

Deliver_on_descriptor_read ==
    /\ Observing("gatt_client", {"ReadCharacteristicDescriptorFromHandleObserver"})
    /\ \E addr \in Addrs, status \in GattStatuses, handle \in Handles :
           Dispatch([c \in Calls |-> on_descriptor_read(c, addr, status, handle)], {})

Deliver_on_search_complete ==
    /\ Observing("gatt_client", {"DiscoveryObserver"})
    /\ \E addr \in Addrs, status \in GattStatuses :
           Dispatch([c \in Calls |-> on_search_complete(c, addr, "services", status)], {})

Deliver_on_connection_updated ==
    /\ Observing("gatt_client", {"ClearCacheObserver"})
    /\ \E addr \in Addrs, status \in GattStatuses :
           Dispatch([c \in Calls |-> on_connection_updated(c, addr, status)], {})

Deliver_on_scanner_registered ==
    /\ Observing("scanner_client", {"ScanObserver"})
    /\ \E uuid \in UuidBytes, sid \in ScannerIds, status \in GattStatuses :
           Dispatch([c \in Calls |-> on_scanner_registered(c, uuid, sid, status)], {})

\* the scanners whose scan is running: started, and not yet stopped
Scanning ==
    {scanner_id(c) : c \in {d \in Calls : pc[d] = "await_scan_results"}} \ {"None"}

\* the stack reports the results of the scans that are running
Deliver_on_scan_result ==
    /\ Observing("scanner_client", {"ScanObserver"})
    /\ \E scan_result \in {r \in ScanResults : r.scanner \in Scanning} :
           Dispatch([c \in Calls |-> on_scan_result(c, scan_result)], {})

Deliver_on_advertising_set_started ==
    /\ Observing("advertising_client", {"AdvertisingObserver"})
    /\ \E reg_id \in RegIds, advertiser_id \in AdvertiserIds,
          status \in GattStatuses \cup {"None"} :
           Dispatch([c \in Calls |->
                        on_advertising_set_started(c, reg_id, advertiser_id, status)], {})

(***************************************************************************)
(* The event loop.                                                         *)
(***************************************************************************)
\* the loop runs the oldest callback posted to it
RunLoop ==
    /\ loopq # <<>>
    /\ LET e == Head(loopq)
       IN  /\ loopq' = Tail(loopq)
           /\ IF e.do = "set_result"
              THEN /\ IF fut[e.call][e.idx].st = "pending"
                      THEN /\ fut' = [fut EXCEPT ![e.call][e.idx] = Done(@, e.val, e.by, "loop")]
                           /\ UNCHANGED invalid_state
                      ELSE /\ invalid_state' = invalid_state \cup {e.call}
                           /\ UNCHANGED fut
                   /\ UNCHANGED queue
              ELSE /\ queue' = [queue EXCEPT ![e.call] = Append(@, e.val[1])]
                   /\ UNCHANGED <<fut, invalid_state>>
    /\ UNCHANGED <<events, kind, request, pc, address, observers, trace, called, outcome,
                   response, confirming, waited_connections, raising, delivered, yielded>>

\* the future the handler is suspended on (0: a queue, or a sleep)
AwaitedFuture(c) ==
    CASE pc[c] \in {"await_scan_results", "await_inquiry_results", "await_connections",
                    "sleep"} -> 0
      [] pc[c] = "await_characteristics" -> characteristics
      [] pc[c] = "await_descriptors" -> descriptors
      [] pc[c] = "await_start_advertising" -> Len(fut[c])
      [] OTHER -> 1

Suspended(c) ==
    pc[c] \notin {"idle", "while_true", "done"} /\ raising[c] = "-"

\* the awaited future is cancelled and the exception is thrown into the handler
Throw(c, exception) ==
    /\ raising' = [raising EXCEPT ![c] = exception]
    /\ fut' = [fut EXCEPT ![c] =
                  IF AwaitedFuture(c) # 0 /\ @[AwaitedFuture(c)].st = "pending"
                  THEN [@ EXCEPT ![AwaitedFuture(c)].st = "cancelled"]
                  ELSE @]
    /\ UNCHANGED <<events, kind, request, pc, address, observers, loopq, trace, called,
                   outcome, response, invalid_state, confirming, waited_connections,
                   queue, delivered, yielded>>

\* asyncio.wait_for(..., timeout=...) expires
Timeout(c) ==
    /\ Suspended(c)
    /\ pc[c] \in {"await_start_advertising", "await_register_scanner",
                  "await_start_inquiry"}
    /\ fut[c][AwaitedFuture(c)].st = "pending"
    /\ Throw(c, "TimeoutError")

\* the RPC is cancelled while its handler is suspended
Cancel(c) ==
    /\ Suspended(c)
    /\ Throw(c, "CancelledError")

\* the finally clause of the handler
Finally(c) ==
    CASE kind[c] \in {"Connect", "WaitConnection", "WaitDisconnection",
                      "DiscoverServicesSdp"} ->
             <<Op("unregister_callback_observer", "adapter_client")>>
      [] kind[c] \in {"ExchangeMTU", "DiscoverServices", "ClearCache",
                      "WriteAttFromHandle"} -> GattUnregisterAll(Len(fut[c]))
      [] kind[c] = "Scan" -> Scan_finally(c)
      [] kind[c] = "Inquiry" -> Inquiry_finally(c)
      [] kind[c] = "Advertise" -> Advertise_finally(c)

\* the exception leaves the handler through its finally clause
Unwind(c) ==
    /\ raising[c] # "-" /\ pc[c] # "done"
    /\ trace' = [trace EXCEPT ![c] = @ \o Finally(c)]
    /\ observers' = [cl \in Clients |-> {o \in observers[cl] : o[1] # c}]
    /\ Ends(c, raising[c], <<>>)
    /\ UNCHANGED <<events, kind, request, address, fut, loopq, called, invalid_state,
                   confirming, waited_connections, raising, queue, delivered, yielded>>

(***************************************************************************)
(* The specification.                                                      *)
(***************************************************************************)
Init ==
    /\ kind \in KindChoices
    /\ request = [c \in Calls |-> [none |-> "-"]]
    /\ pc = [c \in Calls |-> "idle"]
    /\ address = [c \in Calls |-> "-"]
    /\ fut = [c \in Calls |-> <<>>]
    /\ observers = [cl \in Clients |-> {}]
    /\ loopq = <<>>
    /\ trace = [c \in Calls |-> <<>>]
    /\ called = [c \in Calls |-> {}]
    /\ outcome = [c \in Calls |-> "none"]
    /\ response = [c \in Calls |-> <<>>]
    /\ invalid_state = {}
    /\ confirming = {}
    /\ waited_connections = {}
    /\ raising = [c \in Calls |-> "-"]
    /\ queue = [c \in Calls |-> <<>>]
    /\ delivered = [c \in Calls |-> <<>>]
    /\ yielded = [c \in Calls |-> <<>>]
    /\ events = 0

\* the handler runs from one await to the next, or to its end
Proceeds(c) ==
    \/ Connect(c) \/ Connect_resume(c)
    \/ WaitConnection(c) \/ WaitConnection_resume(c)
    \/ WaitDisconnection(c) \/ WaitDisconnection_resume(c)
    \/ Advertise(c) \/ Advertise_loop(c) \/ Advertise_started(c) \/ Advertise_yield(c)
    \/ Scan(c) \/ Scan_start_scan(c) \/ Scan_yield(c)
    \/ Inquiry(c) \/ Inquiry_started(c) \/ Inquiry_yield(c)
    \/ ExchangeMTU(c) \/ ExchangeMTU_resume(c)
    \/ WriteAttFromHandle(c) \/ WriteAttFromHandle_char_status(c)
    \/ WriteAttFromHandle_desc_status(c) \/ WriteAttFromHandle_resume(c)
    \/ DiscoverServices(c) \/ DiscoverServices_resume(c)
    \/ DiscoverServicesSdp(c) \/ DiscoverServicesSdp_resume(c)
    \/ ClearCache(c) \/ ClearCache_resume(c)
    \/ FactoryReset(c) \/ Reset(c)
    \/ ConnectLE(c) \/ SetConnectabilityMode(c)
    \/ Disconnect(c)

Handler(c) == Proceeds(c) \/ Timeout(c) \/ Cancel(c) \/ Unwind(c)

Deliver ==
    \/ Deliver_on_bond_state_changed
    \/ Deliver_on_ssp_request
    \/ Deliver_on_set_pairing_confirmation
    \/ Deliver_on_device_connected
    \/ Deliver_on_device_disconnected
    \/ Deliver_on_device_found
    \/ Deliver_on_discovering_changed
    \/ Deliver_on_device_properties_changed
    \/ Deliver_on_configure_mtu
    \/ Deliver_on_characteristic_write
    \/ Deliver_on_descriptor_write
    \/ Deliver_on_characteristic_read
    \/ Deliver_on_descriptor_read
    \/ Deliver_on_search_complete
    \/ Deliver_on_connection_updated
    \/ Deliver_on_scanner_registered
    \/ Deliver_on_scan_result
    \/ Deliver_on_advertising_set_started

First == CallOrder[1]
Second == CallOrder[2]

\* One call: it ends in every way it can, with a timeout or a cancellation at
\* every await.
Next == Handler(First) \/ Deliver \/ RunLoop

Spec == Init /\ [][Next]_vars

\* The same, with the scheduling of asyncio: a handler that can proceed does, the
\* loop runs the callbacks posted to it, the timer of a wait_for fires, and an
\* exception thrown into a handler unwinds it.  Nothing obliges the stack to
\* deliver an event or the client to cancel.
Fairness ==
    /\ WF_vars(Proceeds(First))
    /\ WF_vars(Timeout(First))
    /\ WF_vars(Unwind(First))
    /\ WF_vars(RunLoop)

FairSpec == Spec /\ Fairness

\* Two calls of one method that are pending together.  The second arrives after
\* the first, for another address; neither is cancelled or times out.
OtherAddress == address[First] = "-" \/ address[First] # address[Second]

ConcurrentNext ==
    \/ \E c \in Calls : /\ c = Second => pc[First] # "idle"
                        /\ Proceeds(c)
                        /\ OtherAddress'
    \/ Deliver
    \/ RunLoop

Concurrent == Init /\ [][ConcurrentNext]_vars

\* Two WriteAttFromHandle calls that are pending together for one device and
\* two handles.  The stack completes only the reads and writes the calls have
\* issued: an event for a device and a handle follows the call of the operation
\* for that device and that handle.
SameDeviceOtherHandle ==
    pc[Second] = "idle" \/ (/\ address[First] = address[Second]
                            /\ request[First].handle # request[Second].handle)

Issued(op, addr, handle) ==
    \E c \in Calls : /\ address[c] = addr
                     /\ \E i \in 1..Len(trace[c]) : trace[c][i] = Op(op, handle)

Complete_read_characteristic ==
    \E addr \in Addrs, status \in GattStatuses, handle \in Handles :
        /\ Issued("read_characteristic", addr, handle)
        /\ Dispatch([c \in Calls |-> on_characteristic_read(c, addr, status, handle)], {})

Complete_read_descriptor ==
    \E addr \in Addrs, status \in GattStatuses, handle \in Handles :
        /\ Issued("read_descriptor", addr, handle)
        /\ Dispatch([c \in Calls |-> on_descriptor_read(c, addr, status, handle)], {})

Complete_write_characteristic ==
    \E addr \in Addrs, status \in GattStatuses, handle \in Handles :
        /\ Issued("write_characteristic", addr, handle)
        /\ Dispatch([c \in Calls |-> on_characteristic_write(c, addr, status, handle)], {})

Complete_write_descriptor ==
    \E addr \in Addrs, status \in GattStatuses, handle \in Handles :
        /\ Issued("write_descriptor", addr, handle)
        /\ Dispatch([c \in Calls |-> on_descriptor_write(c, addr, status, handle)], {})

SameDeviceNext ==
    \/ \E c \in Calls :
           /\ c = Second => pc[First] # "idle"
           /\ \/ WriteAttFromHandle(c) \/ WriteAttFromHandle_char_status(c)
              \/ WriteAttFromHandle_desc_status(c) \/ WriteAttFromHandle_resume(c)
           /\ SameDeviceOtherHandle'
    \/ Complete_read_characteristic
    \/ Complete_read_descriptor
    \/ Complete_write_characteristic
    \/ Complete_write_descriptor
    \/ RunLoop

SameDeviceInit == Init /\ kind = [c \in Calls |-> "WriteAttFromHandle"]

SameDevice == SameDeviceInit /\ [][SameDeviceNext]_vars

\* Two Inquiry calls whose streams are open together; each may be cancelled or
\* time out, and ends through its finally clause.
InquiryStreamsInit == Init /\ kind = [c \in Calls |-> "Inquiry"]

InquiryStreamsNext ==
    \/ \E c \in Calls : Inquiry(c)
    \/ \E c \in Calls : Inquiry_started(c)
    \/ \E c \in Calls : Inquiry_yield(c)
    \/ \E c \in Calls : Timeout(c)
    \/ \E c \in Calls : Cancel(c)
    \/ \E c \in Calls : Unwind(c)
    \/ Deliver_on_discovering_changed
    \/ Deliver_on_device_found
    \/ RunLoop

InquiryStreams == InquiryStreamsInit /\ [][InquiryStreamsNext]_vars

(***************************************************************************)
(* Properties of the services.                                             *)
(***************************************************************************)
\* the number of calls of one of `ops` the handler of c has made
Count(c, ops) == Cardinality({i \in 1..Len(trace[c]) : trace[c][i].op \in ops})

\* the handler of c has made the call op(arg)
Called(c, op, arg) == \E i \in 1..Len(trace[c]) : trace[c][i] = Op(op, arg)

\* C1. Exactly-once resolution: only the first matching event resolves a future;
\* a later matching event is a no-op.  Here: set_result is never called on a
\* future that an earlier event has resolved, so InvalidStateError is raised for
\* a call only if one of its futures was cancelled under it.
C1_ExactlyOnce ==
    \A c \in Calls :
        c \in invalid_state => \E i \in 1..Len(fut[c]) : fut[c][i].st = "cancelled"

\* C2. Key isolation for unary operations: a future is resolved only by an event
\* that carries the key the future was created with, whatever other operation is
\* pending at the same time.  This holds of the results already set and of the
\* ones posted to the loop.
C2_KeyIsolation ==
    /\ \A c \in Calls : \A i \in 1..Len(fut[c]) :
           fut[c][i].st = "done" => fut[c][i].by[2] = fut[c][i].key
    /\ \A n \in 1..Len(loopq) :
           loopq[n].do = "set_result"
               => loopq[n].by[2] = fut[loopq[n].call][loopq[n].idx].key

\* The second call is resolved by the event of its key while the first, of
\* another key, is still pending with its observer registered.
C2_ResolvedBesidePending ==
    /\ Len(fut[First]) > 0 /\ Len(fut[Second]) > 0
    /\ fut[First][1].key # fut[Second][1].key
    /\ fut[First][1].st = "pending" /\ pc[First] \notin {"idle", "done"}
    /\ fut[Second][1].st = "done"
    /\ fut[Second][1].by[2] = fut[Second][1].key

\* C3. Key isolation for the Scan stream: a scan result produced for the scanner
\* of another Scan call is neither in this call's queue nor among the responses
\* it has yielded.
C3_ScanIsolation ==
    \A c \in Calls :
        (kind[c] = "Scan" /\ pc[c] = "await_scan_results") =>
            /\ \A n \in 1..Len(queue[c]) : queue[c][n].scanner = scanner_id(c)
            /\ \A n \in 1..Len(yielded[c]) : yielded[c][n].scanner = scanner_id(c)

\* C4. No-leak cleanup: when a handler has ended, it has made as many
\* unregister_callback_observer calls as register_callback_observer calls.
C4_RegisterUnregisterPaired ==
    \A c \in Calls :
        pc[c] = "done" =>
            Count(c, {"register_callback_observer"})
                = Count(c, {"unregister_callback_observer"})

\* what a streaming handler makes of the events its observer forwarded
Converted(c, items) ==
    [n \in 1..Len(items) |-> IF kind[c] = "Scan" THEN ScanningResponse(items[n])
                                                 ELSE address_to(items[n])]

\* the puts posted to the loop for the queue of c, oldest first
RECURSIVE Puts(_, _)
Puts(c, n) ==
    IF n > Len(loopq) THEN <<>>
    ELSE (IF loopq[n].do = "put" /\ loopq[n].call = c THEN loopq[n].val ELSE <<>>)
         \o Puts(c, n + 1)

\* C5. Stream ordering: the responses yielded so far, then the queue, then the
\* puts still posted to the loop are the events the observer was given, in the
\* order it was given them: nothing is reordered, repeated or left out.
C5_StreamOrder ==
    \A c \in Calls :
        Converted(c, delivered[c])
            = yielded[c] \o Converted(c, queue[c]) \o Converted(c, Puts(c, 1))

\* Two different events have been yielded, and a third is on its way.
C5_TwoYielded ==
    \E c \in Calls :
        /\ Len(yielded[c]) = 2 /\ yielded[c][1] # yielded[c][2]
        /\ Len(delivered[c]) = 3

\* C6. Idempotent teardown: when Advertise, Scan or Inquiry has ended, each
\* advertising set, scan and discovery it started has been stopped once.
C6_StoppedOnce ==
    \A c \in Calls :
        pc[c] = "done" =>
            /\ Count(c, {"start_advertising_set"})
                 = Cardinality({i \in 1..Len(trace[c]) :
                                    /\ trace[c][i].op = "stop_advertising_set"
                                    /\ trace[c][i].arg # "None"})
            /\ Cardinality({i \in 1..Len(trace[c]) :
                                /\ trace[c][i].op = "start_scan"
                                /\ trace[c][i].arg # "None"})
                 = Count(c, {"stop_scan"})
            /\ Count(c, {"start_discovery"}) = 1 => Count(c, {"stop_discovery"}) = 1

C8_ConnectFailure ==
    \A c \in Calls :
        kind[c] = "Connect" =>
            /\ (pc[c] = "await_connect_device" /\ fut[c][connect_device].st = "pending")
                   => \A state \in BondStates, is_connected, connected_all \in BOOLEAN :
                          LET R == on_bond_state_changed(c, 1, address[c], state,
                                                         is_connected, connected_all)
                          IN  /\ R.fut[connect_device].st = "done"
                              /\ R.fut[connect_device].val[1] = FALSE
                              /\ R.ops = {}
            /\ (/\ pc[c] = "done" /\ Len(fut[c]) > 0
                /\ fut[c][connect_device].st = "done"
                /\ fut[c][connect_device].val = <<FALSE, "failed to bond">>)
                   => /\ outcome[c] \in {"RuntimeError", "CancelledError"}
                      /\ response[c] = <<>>
                      /\ trace[c][Len(trace[c])]
                             = Op("unregister_callback_observer", "adapter_client")
                      /\ ~Registered("adapter_client", c, "PairingObserver")

\* The bond state event reported a failure and the RPC ended with RuntimeError.
C8_BondFailed ==
    \E c \in Calls :
        /\ kind[c] = "Connect" /\ outcome[c] = "RuntimeError"
        /\ Len(fut[c]) > 0
        /\ fut[c][connect_device].by = <<"on_bond_state_changed", address[c]>>
        /\ fut[c][connect_device].val = <<FALSE, "failed to bond">>

\* C9. Scan registration correlation: start_scan is called only after an
\* on_scanner_registered event with the uuid of the call has resolved the
\* registration, and with the scanner_id that event carried.
C9_StartScanWithRegisteredId ==
    \A c \in Calls :
        kind[c] = "Scan" =>
            \A i \in 1..Len(trace[c]) :
                trace[c][i].op = "start_scan" =>
                    /\ fut[c][register_scanner].st = "done"
                    /\ fut[c][register_scanner].by[2] = fut[c][register_scanner].key
                    /\ trace[c][i].arg = fut[c][register_scanner].by[3]

\* an on_configure_mtu event for the address of c has been delivered
MtuEventDelivered(c) ==
    \/ IF Len(fut[c]) = 0 THEN FALSE ELSE fut[c][configure_mtu].st = "done"
    \/ \E n \in 1..Len(loopq) : loopq[n].call = c
    \/ c \in invalid_state

\* C10. ExchangeMTU timeout: once ExchangeMTU waits for on_configure_mtu, either
\* an event for its address is delivered, or the client cancels, or the handler
\* ends with a timeout and no observer registered.
C10_ExchangeMTUTimesOut ==
    \A c \in {First} :
        (kind[c] = "ExchangeMTU" /\ pc[c] = "await_configure_mtu")
            ~> \/ MtuEventDelivered(c)
               \/ raising[c] = "CancelledError"
               \/ /\ outcome[c] = "TimeoutError"
                  /\ ~Registered("gatt_client", c, "MTUChangeObserver")

\* the status a read or write future of c was resolved with is not SUCCESS
Failed(c, i) ==
    IF Len(fut[c]) < i THEN FALSE
    ELSE fut[c][i].st = "done" /\ fut[c][i].val[1] # "SUCCESS"

\* C11. WriteAttFromHandle invalid-handle outcome: a handler that has resumed
\* from a failed characteristic read has read the descriptor of the same handle;
\* it waits for a write event only after a read that succeeded; and a handler
\* that has resumed from a failed descriptor read has made no write call, has
\* returned the request's handle with INVALID_HANDLE, and has unregistered its
\* three observers.
C11_InvalidHandle ==
    \A c \in Calls :
        kind[c] = "WriteAttFromHandle" =>
            /\ (/\ Failed(c, characteristics)
                /\ \/ pc[c] \in {"await_descriptors", "await_write_attribute"}
                   \/ pc[c] = "done" /\ outcome[c] = "response")
                   => /\ Len(fut[c]) = 3
                      /\ Count(c, {"read_descriptor"}) = 1
                      /\ Called(c, "read_descriptor", request[c].handle)
            /\ pc[c] = "await_write_attribute"
                   => ~Failed(c, characteristics) \/ ~Failed(c, descriptors)
            /\ (/\ Failed(c, descriptors)
                /\ pc[c] = "done" /\ outcome[c] # "CancelledError")
                   => /\ outcome[c] = "response"
                      /\ response[c]
                             = <<"WriteResponse", request[c].handle, "INVALID_HANDLE">>
                      /\ Count(c, {"write_characteristic", "write_descriptor"}) = 0
                      /\ Count(c, {"register_callback_observer"}) = 3
                      /\ Count(c, {"unregister_callback_observer"}) = 3
                      /\ NamesOf(c) = {}

\* Both reads failed and the handler returned INVALID_HANDLE with no write event.
C11_BothReadsFailed ==
    \E c \in Calls :
        /\ kind[c] = "WriteAttFromHandle" /\ outcome[c] = "response"
        /\ Failed(c, characteristics) /\ Failed(c, descriptors)
        /\ fut[c][write_attribute].st = "pending"
        /\ response[c][3] = "INVALID_HANDLE"

\* C12. WaitConnection waits only for a device that is not connected yet: when
\* is_connected answers true the handler registers no observer, does not
\* suspend, and returns the connection of the request's address.
C12_ConnectedReturnsAtOnce ==
    \A c \in Calls :
        (kind[c] = "WaitConnection" /\ Called(c, "is_connected", "True")) =>
            /\ Count(c, {"register_callback_observer"}) = 0
            /\ pc[c] = "done" /\ outcome[c] = "response"
            /\ response[c] = <<"WaitConnectionResponse", address_to(address[c])>>

\* C13. Thread-safe handoff: every future of a handler is resolved on the event
\* loop, by a callback the observer posted to it; no observer calls set_result
\* on the GLib thread that delivers the event.
C13_ResolvedOnLoop ==
    \A c \in Calls : \A i \in 1..Len(fut[c]) :
        fut[c][i].st = "done" => fut[c][i].thread = "loop"

\* C14. Pairing, bonded but not connected: a bond state event for the address
\* with status 0 and state BONDED, the device not being connected, calls
\* connect_all_enabled_profiles; it resolves the pending operation as failure if
\* that call fails and leaves it pending if it succeeds.  An on_device_connected
\* event for the address resolves the pending operation as success if the
\* device is bonded and leaves it pending if it is not.
C14_BondedNotConnected ==
    \A c \in Calls :
        kind[c] = "Connect" =>
            /\ (pc[c] = "await_connect_device" /\ fut[c][connect_device].st = "pending")
                   => LET connect_all == Op("connect_all_enabled_profiles", address[c])
                          failed == on_bond_state_changed(c, 0, address[c], "BONDED",
                                                          FALSE, FALSE)
                          succeeded == on_bond_state_changed(c, 0, address[c], "BONDED",
                                                             FALSE, TRUE)
                          bonded == PairingObserver_on_device_connected(
                                        c, address[c], TRUE)
                          unbonded == PairingObserver_on_device_connected(
                                          c, address[c], FALSE)
                      IN  /\ failed.ops = {connect_all}
                          /\ failed.fut[connect_device].st = "done"
                          /\ failed.fut[connect_device].val[1] = FALSE
                          /\ succeeded.ops = {connect_all}
                          /\ succeeded.fut = fut[c]
                          /\ bonded.fut[connect_device].st = "done"
                          /\ bonded.fut[connect_device].val = <<TRUE, "None">>
                          /\ unbonded.fut = fut[c]
            /\ (Len(fut[c]) > 0 /\ fut[c][connect_device].st = "done")
                   => /\ fut[c][connect_device].by[1] = "on_device_connected"
                          => fut[c][connect_device].val = <<TRUE, "None">>
                      /\ fut[c][connect_device].val[2]
                             = "failed on connect_all_enabled_profiles"
                          => Op("connect_all_enabled_profiles", address[c]) \in called[c]

\* The BONDED event found the device not connected, connect_all_enabled_profiles
\* succeeded, and the on_device_connected event that followed resolved the
\* operation, which returned its response.
C14_ConnectedAfterBonded ==
    \E c \in Calls :
        /\ kind[c] = "Connect" /\ outcome[c] = "response"
        /\ Op("connect_all_enabled_profiles", address[c]) \in called[c]
        /\ Len(fut[c]) > 0 /\ fut[c][connect_device].st = "done"
        /\ fut[c][connect_device].by = <<"on_device_connected", address[c]>>

\* C15. Pairing consent: while Connect is pending, an SSP request of variant
\* CONSENT for its address calls set_pairing_confirmation for that address and
\* resolves nothing; a request for another address or of another variant calls
\* nothing.  The completion of the accept call resolves the operation as failure
\* if it carries an error or a false result, and leaves it pending otherwise.
C15_PairingConsent ==
    \A c \in Calls :
        kind[c] = "Connect" =>
            /\ (pc[c] = "await_connect_device" /\ fut[c][connect_device].st = "pending")
                   => /\ \A addr \in Addrs, variant \in SspVariants :
                             LET R == on_ssp_request(c, addr, variant)
                             IN  /\ R.fut = fut[c]
                                 /\ IF addr = address[c] /\ variant = "CONSENT"
                                    THEN /\ R.ops = {Op("set_pairing_confirmation", addr)}
                                         /\ R.confirm
                                    ELSE /\ R.ops = {}
                                         /\ ~R.confirm
                      /\ \A err, result \in BOOLEAN :
                             LET R == on_set_pairing_confirmation(c, err, result)
                             IN  IF err \/ ~result
                                 THEN /\ R.fut[connect_device].st = "done"
                                      /\ R.fut[connect_device].val
                                             = <<FALSE, "Pairing confirmation failed">>
                                 ELSE R.fut = fut[c]
            /\ (c \in confirming
                   \/ (Len(fut[c]) > 0
                       /\ fut[c][connect_device].st = "done"
                       /\ fut[c][connect_device].by[1] = "on_set_pairing_confirmation"))
                   => Op("set_pairing_confirmation", address[c]) \in called[c]

\* The request was accepted, the accept call failed, and Connect returned the
\* failure it was resolved with.
C15_ConfirmationFailed ==
    \E c \in Calls :
        /\ kind[c] = "Connect" /\ pc[c] = "done"
        /\ Op("set_pairing_confirmation", address[c]) \in called[c]
        /\ Len(fut[c]) > 0 /\ fut[c][connect_device].st = "done"
        /\ fut[c][connect_device].by = <<"on_set_pairing_confirmation", address[c]>>
        /\ fut[c][connect_device].val[1] = FALSE

\* the number of observers c had registered with client before its i-th call
RegisteredBefore(c, client, i) ==
    Cardinality({j \in 1..(i - 1) :
                     trace[c][j] = Op("register_callback_observer", client)})

\* the number of calls of op that c had made up to and including its i-th call
IssuedUpTo(c, op, i) == Cardinality({j \in 1..i : trace[c][j].op = op})

\* C16. Register-before-trigger: the observer of an operation's events is
\* registered before the operation is issued.  In the order of a handler's
\* calls: Scan has registered its ScanObserver before register_scanner,
\* Advertise has registered an AdvertisingObserver for each
\* start_advertising_set before it, and Inquiry has registered its
\* DiscoveryObserver and its InquiryResultObserver before start_discovery.
C16_RegisteredBeforeTriggered ==
    \A c \in Calls : \A i \in 1..Len(trace[c]) :
        /\ trace[c][i].op = "register_scanner"
               => RegisteredBefore(c, "scanner_client", i) >= 1
        /\ trace[c][i].op = "start_advertising_set"
               => RegisteredBefore(c, "advertising_client", i)
                      >= IssuedUpTo(c, "start_advertising_set", i)
        /\ trace[c][i].op = "start_discovery"
               => RegisteredBefore(c, "adapter_client", i) >= 2

\* C17. Timeout cleanup: a handler whose bounded wait (Advertise for the started
\* advertising set, Scan for the registered scanner, Inquiry for the change of
\* discovering) has expired has ended in failure with no response, has no
\* observer left in a registry, and has made at least one unregister call on a
\* client for each observer it registered there.
C17_TimeoutCleanup ==
    \A c \in Calls :
        outcome[c] = "TimeoutError" =>
            /\ kind[c] \in {"Advertise", "Scan", "Inquiry"}
            /\ pc[c] = "done" /\ response[c] = <<>>
            /\ NamesOf(c) = {}
            /\ \A client \in Clients :
                   Cardinality({i \in 1..Len(trace[c]) :
                       trace[c][i] = Op("unregister_callback_observer", client)})
                   >= Cardinality({i \in 1..Len(trace[c]) :
                          trace[c][i] = Op("register_callback_observer", client)})

\* The wait of Scan for its scanner has expired after the ScanObserver was
\* registered, and the call has ended.
C17_ScanTimedOut ==
    \E c \in Calls :
        /\ kind[c] = "Scan" /\ outcome[c] = "TimeoutError"
        /\ Called(c, "register_callback_observer", "scanner_client")

\* C18. A timeout cancels only the wait: a handler whose bounded wait has
\* expired has issued no stop call for the action the wait was for.  Inquiry
\* has not called stop_discovery, Scan has not called stop_scan, and Advertise
\* has called stop_advertising_set only for the sets whose start it saw.
C18_TimeoutStopsNothing ==
    \A c \in Calls :
        outcome[c] = "TimeoutError" =>
            /\ Count(c, {"stop_discovery", "stop_scan"}) = 0
            /\ \A i \in 1..Len(trace[c]) :
                   trace[c][i].op = "stop_advertising_set"
                       => \E n \in 1..Len(fut[c]) :
                              /\ fut[c][n].st = "done"
                              /\ fut[c][n].val = <<trace[c][i].arg>>

\* the status a simple GATT operation was resolved with
StatusOf(c, f) == IF kind[c] = "DiscoverServices" THEN f[1].val[2] ELSE f[1].val[1]

\* what the completion callback of a simple GATT operation posts for a status
PostedFor(c, status) ==
    CASE kind[c] = "ExchangeMTU" -> on_configure_mtu(c, address[c], status).posts
      [] kind[c] = "DiscoverServices"
             -> on_search_complete(c, address[c], "services", status).posts
      [] kind[c] = "ClearCache" -> on_connection_updated(c, address[c], status).posts

\* C19. Device-status failure of the simple operations: in ExchangeMTU,
\* DiscoverServices and ClearCache the completion event for the address posts
\* its status as the result of the wait, the wait is resolved with the oldest
\* result posted, and a handler that leaves a wait resolved with a status other
\* than SUCCESS ends in failure, with no response and one unregister call in all.
C19_DeviceStatusFailure ==
    [][\A c \in Calls :
          kind[c] \in {"ExchangeMTU", "DiscoverServices", "ClearCache"} =>
              /\ (pc[c] \notin {"idle", "done"} /\ raising[c] = "-"
                  /\ fut[c][1].st = "pending")
                     => /\ \A status \in GattStatuses :
                               /\ Len(PostedFor(c, status)) = 1
                               /\ PostedFor(c, status)[1].do = "set_result"
                               /\ PostedFor(c, status)[1].val[
                                      IF kind[c] = "DiscoverServices" THEN 2 ELSE 1]
                                      = status
                        /\ fut'[c][1].st = "done"
                               => /\ loopq # <<>> /\ Head(loopq).call = c
                                  /\ fut'[c][1].val = Head(loopq).val
              /\ (pc[c] # "done" /\ pc'[c] = "done" /\ fut[c][1].st = "done"
                  /\ StatusOf(c, fut[c]) # "SUCCESS")
                     => /\ outcome'[c] \in {"RuntimeError", "CancelledError"}
                        /\ raising[c] = "-" => outcome'[c] = "RuntimeError"
                        /\ response'[c] = <<>>
                        /\ Cardinality({i \in 1..Len(trace'[c]) :
                                            trace'[c][i] = GattUnregister}) = 1
                        /\ \A o \in observers'["gatt_client"] : o[1] # c]_vars

\* DiscoverServices was resolved with a status other than SUCCESS and raised.
C19_DiscoverServicesFailed ==
    \E c \in Calls :
        /\ kind[c] = "DiscoverServices" /\ outcome[c] = "RuntimeError"
        /\ fut[c][search_services].st = "done"
        /\ fut[c][search_services].val[2] = "ERROR"
        /\ Count(c, {"unregister_callback_observer"}) = 1

\* C20. Advertise restart: in a connectable Advertise, a connection taken from
\* the queue yields one response, and a handler that has yielded a connection
\* comes to wait for the next one only from the wait for a started event of a
\* start_advertising_set issued since, that wait being resolved.
C20_RestartsAfterConnection ==
    [][\A c \in Calls :
          kind[c] = "Advertise" =>
              /\ yielded'[c] # yielded[c]
                     => /\ queue[c] # <<>>
                        /\ yielded'[c] = Append(yielded[c], address_to(Head(queue[c])))
                        /\ queue'[c] = Tail(queue[c])
              /\ (pc'[c] = "await_connections" /\ pc[c] # "await_connections"
                  /\ Len(yielded[c]) > 0)
                     => /\ pc[c] = "await_start_advertising"
                        /\ fut[c][Len(fut[c])].st = "done"
                        /\ Count(c, {"start_advertising_set"}) > Len(yielded[c])]_vars

\* C21. Inquiry start: Inquiry calls start_discovery exactly when is_discovering
\* answered False.  A call that started discovery reads its queue of results
\* only after an on_discovering_changed(True) event has resolved its wait, and
\* an on_discovering_changed(False) event leaves that wait pending.
C21_InquiryStart ==
    \A c \in Calls :
        (kind[c] = "Inquiry" /\ pc[c] # "idle") =>
            /\ Called(c, "is_discovering", "False") <=> Count(c, {"start_discovery"}) = 1
            /\ Called(c, "is_discovering", "True") <=> Count(c, {"start_discovery"}) = 0
            /\ (Count(c, {"start_discovery"}) = 1
                /\ (pc[c] = "await_inquiry_results" \/ yielded[c] # <<>>
                    \/ delivered[c] # <<>>))
                   => /\ fut[c][start_inquiry].st = "done"
                      /\ fut[c][start_inquiry].val = <<"True">>
                      /\ fut[c][start_inquiry].by = <<"on_discovering_changed", "True">>
            /\ (pc[c] = "await_start_inquiry" /\ fut[c][start_inquiry].st = "pending")
                   => /\ on_discovering_changed(c, "False").fut = fut[c]
                      /\ on_discovering_changed(c, "True").fut[start_inquiry].st = "done"

\* Inquiry found the adapter not discovering, started discovery, saw it start
\* and yielded a device.
C21_StartedAndStreamed ==
    \E c \in Calls :
        /\ kind[c] = "Inquiry" /\ Called(c, "start_discovery", "-")
        /\ yielded[c] # <<>>

C23_UnsetAddressRejected ==
    \A c \in Calls :
        (kind[c] \in {"WaitConnection", "WaitDisconnection"} /\ pc[c] # "idle"
         /\ request[c].address = Unset)
            => /\ pc[c] = "done" /\ outcome[c] = "ValueError"
               /\ trace[c] = <<>>
               /\ NamesOf(c) = {}

\* C24. Unimplemented operations: the step of ConnectLE or SetConnectabilityMode
\* marks the context UNIMPLEMENTED and ends the call with an error and no
\* response; it makes no call of the stack, registers no observer, and leaves
\* the set of waited connections as it was.
C24_Unimplemented ==
    [][\A c \in Calls :
          (kind[c] \in {"ConnectLE", "SetConnectabilityMode"}
           /\ pc[c] = "idle" /\ pc'[c] # "idle")
              => /\ pc'[c] = "done"
                 /\ outcome'[c] = "NotImplementedError" /\ response'[c] = <<>>
                 /\ trace'[c] = <<Op("set_code", "UNIMPLEMENTED"),
                                  Op("set_details", "Method not implemented!")>>
                 /\ observers' = observers
                 /\ called' = called
                 /\ fut' = fut
                 /\ waited_connections' = waited_connections]_vars

\* ConnectLE has been called and has ended with NotImplementedError.
C24_ConnectLERejected ==
    \E c \in Calls :
        /\ kind[c] = "ConnectLE" /\ outcome[c] = "NotImplementedError"
        /\ Called(c, "set_code", "UNIMPLEMENTED")

\* C25. WaitConnection completion: a WaitConnection call that registered its
\* observer, was given the connected event of its address and was not
\* cancelled returns a Connection for the address, and the address is then in
\* the set of waited connections that later calls test.
C25_WaitConnectionCompletes ==
    \A c \in Calls :
        (kind[c] = "WaitConnection" /\ pc[c] = "done"
         /\ outcome[c] # "CancelledError" /\ Len(fut[c]) > 0
         /\ fut[c][wait_connection].st = "done")
            => /\ fut[c][wait_connection].by = <<"on_device_connected", address[c]>>
               /\ outcome[c] = "response"
               /\ response[c] = <<"WaitConnectionResponse", address_to(address[c])>>
               /\ address[c] \in waited_connections

\* the handler of c has gone past the await it was at with pc = at
Past(c, at) == pc[c] # at /\ ~(pc[c] = "done" /\ outcome[c] = "CancelledError")

\* C26. WriteAttFromHandle, read before write: a call issues at most one write.
\* It issues write_characteristic when, and only when, the characteristic read
\* completed with SUCCESS; it issues read_descriptor only after a failed
\* characteristic read, and write_descriptor when, and only when, that read
\* failed and the descriptor read completed with SUCCESS.  The response of a call
\* that issued a write carries the status and the handle of the write event,
\* whatever the status.
C26_ReadBeforeWrite ==
    \A c \in Calls :
        (kind[c] = "WriteAttFromHandle" /\ pc[c] # "idle") =>
            LET h == request[c].handle
                char == fut[c][characteristics]
                char_ok == char.st = "done" /\ char.val = <<"SUCCESS">>
                char_failed == char.st = "done" /\ char.val # <<"SUCCESS">>
                desc_ok == /\ Len(fut[c]) >= descriptors
                           /\ fut[c][descriptors].st = "done"
                           /\ fut[c][descriptors].val = <<"SUCCESS">>
                written == Count(c, {"write_characteristic", "write_descriptor"})
            IN  /\ written <= 1
                /\ \A i \in 1..Len(trace[c]) :
                       trace[c][i].op \in {"read_characteristic", "read_descriptor",
                                           "write_characteristic", "write_descriptor"}
                           => trace[c][i].arg = h
                /\ Called(c, "write_characteristic", h) => char_ok
                /\ (char_ok /\ Past(c, "await_characteristics"))
                       => Called(c, "write_characteristic", h)
                /\ Called(c, "read_descriptor", h) => char_failed
                /\ (char_failed /\ Past(c, "await_characteristics"))
                       => Called(c, "read_descriptor", h)
                /\ Called(c, "write_descriptor", h) => (char_failed /\ desc_ok)
                /\ (char_failed /\ desc_ok /\ Past(c, "await_descriptors")
                    /\ Past(c, "await_characteristics"))
                       => Called(c, "write_descriptor", h)
                /\ (written = 1 /\ pc[c] = "done" /\ outcome[c] # "CancelledError")
                       => /\ fut[c][write_attribute].st = "done"
                          /\ fut[c][write_attribute].by[1]
                                 \in {"on_characteristic_write", "on_descriptor_write"}
                          /\ outcome[c] = "response"
                          /\ response[c] = <<"WriteResponse",
                                             fut[c][write_attribute].val[2],
                                             fut[c][write_attribute].val[1]>>

\* The characteristic read succeeded, the characteristic was written, the write
\* event carried a status other than SUCCESS, and the call returned that status.
C26_RefusedWriteReturned ==
    \E c \in Calls :
        /\ kind[c] = "WriteAttFromHandle" /\ outcome[c] = "response"
        /\ Called(c, "write_characteristic", request[c].handle)
        /\ response[c][3] = "ERROR"

\* C27. WaitDisconnection: a call that found the device not connected has
\* registered no observer and has returned.  A call that found it connected has
\* registered one observer; it returns only when an on_device_disconnected
\* event for its address has resolved its wait, an event for another address
\* leaving the wait pending; and once it has ended it has unregistered the
\* observer with one call.  Disconnect calls disconnect_device exactly when it
\* found the device connected.
C27_WaitDisconnection ==
    \A c \in Calls :
        /\ (kind[c] = "WaitDisconnection" /\ Called(c, "is_connected", "False"))
               => /\ pc[c] = "done" /\ outcome[c] = "response"
                  /\ response[c] = <<"Empty", "-">>
                  /\ Count(c, {"register_callback_observer",
                               "unregister_callback_observer"}) = 0
        /\ (kind[c] = "WaitDisconnection" /\ Called(c, "is_connected", "True"))
               => /\ Count(c, {"register_callback_observer"}) = 1
                  /\ outcome[c] = "response"
                         => fut[c][wait_disconnection].by
                                = <<"on_device_disconnected", address[c]>>
                  /\ IF pc[c] = "done"
                     THEN /\ Count(c, {"unregister_callback_observer"}) = 1
                          /\ NamesOf(c) = {}
                     ELSE Count(c, {"unregister_callback_observer"}) = 0
                  /\ (pc[c] = "await_wait_disconnection"
                      /\ fut[c][wait_disconnection].st = "pending")
                         => \A addr \in Addrs :
                                IF addr = address[c]
                                THEN on_device_disconnected(c, addr)
                                         .fut[wait_disconnection].st = "done"
                                ELSE on_device_disconnected(c, addr).fut = fut[c]
        /\ (kind[c] = "Disconnect" /\ pc[c] = "done")
               => /\ outcome[c] = "response"
                  /\ Called(c, "disconnect_device", address[c])
                         <=> Called(c, "is_connected", "True")
                  /\ Count(c, {"disconnect_device"}) <= 1

\* WaitDisconnection found the device connected, waited, and returned after the
\* disconnection of its device.
C27_DisconnectionWaitedFor ==
    \E c \in Calls :
        /\ kind[c] = "WaitDisconnection" /\ outcome[c] = "response"
        /\ Called(c, "is_connected", "True")
        /\ address[c] \in Addrs

\* C28. No cross-talk between concurrent writes: of two WriteAttFromHandle calls
\* pending together for one device and two handles, each call that issued a
\* write and returned reports the handle of its own write: its wait was not
\* resolved by the event of the other call's write.
C28_NoCrossTalk ==
    \A c \in Calls :
        (outcome[c] = "response"
         /\ Count(c, {"write_characteristic", "write_descriptor"}) = 1)
            => response[c][2] = request[c].handle

\* the stream of an Inquiry call is open: it is reading its queue of results
StreamOpen(c) == kind[c] = "Inquiry" /\ pc[c] = "await_inquiry_results" /\ raising[c] = "-"

\* C29. Concurrent Inquiry streams: no Inquiry call issues stop_discovery in a
\* step in which the stream of another Inquiry call is open.
C29_StopsOnlyOwnDiscovery ==
    [][\A c \in Calls :
          Len(trace'[c]) > Len(trace[c])
          /\ (\E i \in (Len(trace[c]) + 1)..Len(trace'[c]) :
                  trace'[c][i].op = "stop_discovery")
              => \A d \in Calls \ {c} : ~StreamOpen(d)]_vars

\* C30. DiscoverServicesSdp cleanup is matched to registration: the handler
\* makes an unregister call only for an observer it registered; a call that has
\* ended without registering an observer (the device is BONDING) has returned a
\* response; and a call whose fetch_remote failed has raised RuntimeError and
\* has unregistered its observer with one call.
C30_CleanupMatchesRegistration ==
    \A c \in Calls :
        (kind[c] = "DiscoverServicesSdp" /\ pc[c] = "done") =>
            /\ Count(c, {"unregister_callback_observer"})
                   = Count(c, {"register_callback_observer"})
            /\ Count(c, {"register_callback_observer"}) = 0
                   => outcome[c] = "response"
            /\ outcome[c] = "RuntimeError"
                   => /\ Called(c, "fetch_remote", address[c])
                      /\ Count(c, {"unregister_callback_observer"}) = 1
                      /\ NamesOf(c) = {}

\* C31. No device call with a null identifier: every start_scan, stop_scan and
\* stop_advertising_set call of a handler carries an identifier, never None;
\* after a registration or start event with a status other than SUCCESS the
\* handler has called no start_scan and stops no advertiser.
C31_NoNullIdentifier ==
    \A c \in Calls : \A i \in 1..Len(trace[c]) :
        trace[c][i].op \in {"start_scan", "stop_scan", "stop_advertising_set"}
            => /\ trace[c][i].arg # "None"
               /\ trace[c][i].arg \in ScannerIds \cup AdvertiserIds

=============================================================================
